---- MODULE Spec2Model ----
(***************************************************************************)
(* ZarcFit numerical engine: the circuit models (ModelCircuits.py), the    *)
(* fit engine (FitBuilder.py) and their callers (Calculator.py, Main.py).  *)
(*                                                                         *)
(* Numbers.  A Python number is modelled exactly, as the complex rational  *)
(* (re + im*j)/den, together with the flag np that says whether it is a    *)
(* numpy scalar (np.float64 / np.complex128) or a plain Python float or    *)
(* complex.  The flag decides what a division by zero does: plain Python   *)
(* raises ZeroDivisionError, numpy warns and yields inf or nan, which is   *)
(* the value with den = 0 here (NonFinite).  A raised exception is a value *)
(* of the same record shape with k # "num"; it propagates through the      *)
(* arithmetic of an expression, left operand first, as Python's            *)
(* evaluation order does.                                                  *)
(*                                                                         *)
(* Frequencies are carried in units of 1/(2*pi) Hz: the number that stands *)
(* for a frequency f is the angular frequency 2*pi*f.  Every use the       *)
(* circuit models make of a frequency is either a sign test or the         *)
(* product 2*pi*f, so the formulas stay exact over the rationals.          *)
(* Exponents (the P parameters) are integers, so that (1j)**P and          *)
(* (2*pi*f)**P are exact.                                                  *)
(*                                                                         *)
(* Rounding.  A double that is no rational of this model's grid is carried *)
(* as its neighbour on the grid with ulp = -1: the number is the greatest  *)
(* double below re/den.  The only such number is the one next below -1.0   *)
(* (and the one next below -10.0 it is descaled from); the operations that *)
(* act on it (the descaling and the normalisation of Pei in FitBuilder)    *)
(* round as IEEE 754 double arithmetic does, and the circuit formulas,     *)
(* whose results are carried to the precision of the grid, take it as its  *)
(* neighbour.                                                              *)
(***************************************************************************)
EXTENDS Integers, Sequences, FiniteSets, TLC

-----------------------------------------------------------------------------
(* Exact arithmetic with Python's exception behaviour *)

Abs(n) == IF n < 0 THEN -n ELSE n

RECURSIVE Gcd(_, _)
Gcd(a, b) == IF b = 0 THEN a ELSE Gcd(b, a % b)

RECURSIVE IntPow(_, _)
IntPow(b, n) == IF n = 0 THEN 1 ELSE b * IntPow(b, n - 1)

Exc(kind, why) ==
    [k |-> kind, why |-> why, re |-> 0, im |-> 0, den |-> 1, np |-> FALSE, ulp |-> 0]

NonFinite ==
    [k |-> "num", why |-> "", re |-> 0, im |-> 0, den |-> 0, np |-> TRUE, ulp |-> 0]

\* the fraction in lowest terms with a positive denominator; s is the common
\* divisor, with the sign of den
Reduced(re, im, den, np, s) ==
    [k |-> "num", why |-> "", re |-> re \div s, im |-> im \div s,
     den |-> den \div s, np |-> np, ulp |-> 0]

Num(re, im, den, np) ==
    IF den = 0 THEN NonFinite
    ELSE Reduced(re, im, den, np,
                 IF den < 0 THEN -Gcd(Gcd(Abs(re), Abs(im)), Abs(den))
                 ELSE Gcd(Gcd(Abs(re), Abs(im)), Abs(den)))

Py(n) == Num(n, 0, 1, FALSE)
Np(n) == Num(n, 0, 1, TRUE)

ExceptionKinds == {"ValueError", "ZeroDivisionError", "KeyError", "IndexError"}
IsExc(v) == v.k \in ExceptionKinds
IsFinite(v) == v.k = "num" /\ v.den # 0
IsZero(v) == v.k = "num" /\ v.den # 0 /\ v.re = 0 /\ v.im = 0
IsNeg(v) == v.k = "num" /\ v.den # 0 /\ v.re < 0
IsPos(v) == v.k = "num" /\ v.den # 0 /\ v.re > 0
SameNumber(x, y) ==
    /\ x.k = "num" /\ y.k = "num"
    /\ x.re = y.re /\ x.im = y.im /\ x.den = y.den /\ x.ulp = y.ulp

\* A double whose rounding matters is carried bit for bit, as
\* [k |-> "double", sign, m, e, np]: the number sign * m * 2**e, m the 53-bit
\* significand (2**52 <= m < 2**53) as three limbs of 20 bits, the least
\* significant first.
Limb == 1024 * 1024

\* n * c for a small c; the last limb takes what is left
MulSmall(n, c) ==
    << (n[1] * c) % Limb,
       (n[2] * c + (n[1] * c) \div Limb) % Limb,
       n[3] * c + (n[2] * c + (n[1] * c) \div Limb) \div Limb >>

\* n \div d and n % d for a small d, by long division
DivSmall(n, d) ==
    LET r2 == n[3] % d
        t1 == r2 * Limb + n[2]
        t0 == (t1 % d) * Limb + n[1]
    IN [q |-> <<t0 \div d, t1 \div d, n[3] \div d>>, r |-> t0 % d]

\* n + 1
Inc(n) ==
    IF n[1] + 1 < Limb THEN <<n[1] + 1, n[2], n[3]>>
    ELSE IF n[2] + 1 < Limb THEN <<0, n[2] + 1, n[3]>>
    ELSE <<0, 0, n[3] + 1>>

\* n / d rounded to the nearest integer, ties to even
RoundDiv(n, d) ==
    LET Rounded(x) ==
            IF 2 * x.r > d \/ (2 * x.r = d /\ x.q[1] % 2 = 1) THEN Inc(x.q) ELSE x.q
    IN Rounded(DivSmall(n, d))

\* the double sign * m * 2**e, m of 53 or, after a rounding, of 54 bits
Double(sign, m, e, np) ==
    IF m[3] >= 8192
    THEN [k |-> "double", sign |-> sign, m |-> DivSmall(m, 2).q, e |-> e + 1, np |-> np]
    ELSE [k |-> "double", sign |-> sign, m |-> m, e |-> e, np |-> np]

\* x * 10.0 in IEEE 754 double arithmetic: the product has 56 or 57 bits
DoubleTimesTen(x) ==
    IF MulSmall(x.m, 10)[3] >= 65536
    THEN Double(x.sign, RoundDiv(MulSmall(x.m, 10), 16), x.e + 4, x.np)
    ELSE Double(x.sign, RoundDiv(MulSmall(x.m, 10), 8), x.e + 3, x.np)

\* x / 10.0 in IEEE 754 double arithmetic: the quotient of m * 2**s by 10
\* with the s that leaves 53 bits
DoubleDivTen(x) ==
    IF x.m[3] < 5120
    THEN Double(x.sign, RoundDiv(MulSmall(x.m, 16), 10), x.e - 4, x.np)
    ELSE Double(x.sign, RoundDiv(MulSmall(x.m, 8), 10), x.e - 3, x.np)

\* a >= b, a + b and a - b (for a >= b) on limbs
GE(a, b) ==
    \/ a[3] > b[3]
    \/ a[3] = b[3] /\ (a[2] > b[2] \/ (a[2] = b[2] /\ a[1] >= b[1]))

AddLimbs(a, b) ==
    << (a[1] + b[1]) % Limb,
       (a[2] + b[2] + (a[1] + b[1]) \div Limb) % Limb,
       a[3] + b[3] + (a[2] + b[2] + (a[1] + b[1]) \div Limb) \div Limb >>

SubLimbs(a, b) ==
    << (a[1] - b[1]) % Limb,
       (a[2] - b[2] + (a[1] - b[1]) \div Limb) % Limb,
       a[3] - b[3] + (a[2] - b[2] + (a[1] - b[1]) \div Limb) \div Limb >>

\* the number of bits of n beyond 53, from its last limb
RECURSIVE Excess(_)
Excess(last) == IF last < 8192 THEN 0 ELSE 1 + Excess(last \div 2)

\* the double nearest to sign * n * 2**e for an integer n >= 0 of any length
RECURSIVE Nearest(_, _, _, _)
Nearest(sign, n, e, np) ==
    IF n = <<0, 0, 0>> THEN [k |-> "num", why |-> "", re |-> 0, im |-> 0, den |-> 1,
                             np |-> np, ulp |-> 0]
    ELSE IF n[3] >= 8192
         THEN Double(sign, RoundDiv(n, IntPow(2, Excess(n[3]))), e + Excess(n[3]), np)
    ELSE IF n[3] < 4096 THEN Nearest(sign, MulSmall(n, 2), e - 1, np)
    ELSE Double(sign, n, e, np)

\* x + y for |x| >= |y|: the exact sum over the smaller exponent, rounded once
AddOrdered(x, y) ==
    IF x.sign = y.sign
    THEN Nearest(x.sign, AddLimbs(MulSmall(x.m, IntPow(2, x.e - y.e)), y.m), y.e,
                 x.np \/ y.np)
    ELSE Nearest(x.sign, SubLimbs(MulSmall(x.m, IntPow(2, x.e - y.e)), y.m), y.e,
                 x.np \/ y.np)

\* x + y in IEEE 754 double arithmetic
DoubleAdd(x, y) ==
    IF x.e > y.e \/ (x.e = y.e /\ GE(x.m, y.m)) THEN AddOrdered(x, y)
    ELSE AddOrdered(y, x)

\* one bit of the long division by m: the quotient q and the running
\* remainder r, doubled
DivisionStep(m, s) ==
    IF GE(s.r, m) THEN [q |-> Inc(MulSmall(s.q, 2)), r |-> MulSmall(SubLimbs(s.r, m), 2)]
    ELSE [q |-> MulSmall(s.q, 2), r |-> MulSmall(s.r, 2)]

\* n bits of the long division by m from the state s
RECURSIVE LongDivision(_, _, _)
LongDivision(m, s, n) ==
    IF n = 0 THEN s
    ELSE CHOOSE out \in {LongDivision(m, t, n - 1) : t \in {DivisionStep(m, s)}} : TRUE

\* the quotient rounded to the nearest integer: the remainder, doubled, is
\* never equal to m (no tie can happen)
RoundedQuotient(m, division) ==
    IF GE(division.r, m) /\ division.r # m THEN Inc(division.q) ELSE division.q

\* 1.0 / x in IEEE 754 double arithmetic: 2**105 / m, by 54 bits of long
\* division from 2**52, rounded, times 2**(-105 - e)
Reciprocal(sign, m, e, np) ==
    Double(sign, RoundedQuotient(m, LongDivision(m, [q |-> <<0, 0, 0>>, r |-> <<0, 0, 4096>>], 54)),
           -105 - e, np)

DoubleReciprocal(x) ==
    CHOOSE out \in {Reciprocal(d.sign, d.m, d.e, d.np) : d \in {x}} : TRUE

\* x / 2.0
DoubleHalf(x) == [x EXCEPT !.e = @ - 1]

\* the sum over the least common denominator; g divides both denominators
AddOver(x, y, g) ==
    Num(x.re * (y.den \div g) + y.re * (x.den \div g),
        x.im * (y.den \div g) + y.im * (x.den \div g),
        x.den * (y.den \div g), x.np \/ y.np)

Add(x, y) ==
    IF IsExc(x) THEN x ELSE IF IsExc(y) THEN y
    ELSE IF x.den = 0 \/ y.den = 0 THEN NonFinite
    ELSE AddOver(x, y, Gcd(x.den, y.den))

Neg(x) == IF IsExc(x) \/ x.den = 0 THEN x ELSE Num(-x.re, -x.im, x.den, x.np)

Sub(x, y) == Add(x, Neg(y))

Mul(x, y) ==
    IF IsExc(x) THEN x ELSE IF IsExc(y) THEN y
    ELSE IF x.den = 0 \/ y.den = 0 THEN NonFinite
    ELSE Num(x.re * y.re - x.im * y.im, x.re * y.im + x.im * y.re,
             x.den * y.den, x.np \/ y.np)

\* x times the inverse of y, which is conj(y) / |y|**2; g divides the real
\* and the imaginary part of y
TimesInverse(x, y, g) ==
    Mul(x, Num(y.den * (y.re \div g), -(y.den * (y.im \div g)),
               g * ((y.re \div g) * (y.re \div g) + (y.im \div g) * (y.im \div g)),
               x.np \/ y.np))

\* x / y: a zero divisor raises ZeroDivisionError between plain Python
\* numbers and yields inf or nan (with a warning) when a numpy scalar is involved.
Div(x, y) ==
    IF IsExc(x) THEN x ELSE IF IsExc(y) THEN y
    ELSE IF IsZero(y)
         THEN IF x.np \/ y.np THEN NonFinite
              ELSE Exc("ZeroDivisionError", "division by zero")
    ELSE IF x.den = 0 \/ y.den = 0 THEN NonFinite
    ELSE TimesInverse(x, y, Gcd(Abs(y.re), Abs(y.im)))

\* base ** p for a real base >= 0 and an integer exponent p
Pow(base, p) ==
    IF IsExc(base) THEN base ELSE IF IsExc(p) THEN p
    ELSE IF base.den = 0 \/ p.den = 0 THEN NonFinite
    ELSE IF p.re >= 0
         THEN Num(IntPow(base.re, p.re), 0, IntPow(base.den, p.re), base.np \/ p.np)
    ELSE IF base.re = 0
         THEN IF base.np \/ p.np THEN NonFinite
              ELSE Exc("ZeroDivisionError", "0.0 cannot be raised to a negative power")
    ELSE Num(IntPow(base.den, -p.re), 0, IntPow(base.re, -p.re), base.np \/ p.np)

\* (1j) ** pi for an integer exponent pi
JPow(pi) ==
    IF IsExc(pi) THEN pi
    ELSE IF pi.den = 0 THEN NonFinite
    ELSE LET r == pi.re % 4
         IN Num(IF r = 0 THEN 1 ELSE IF r = 2 THEN -1 ELSE 0,
                IF r = 1 THEN 1 ELSE IF r = 3 THEN -1 ELSE 0, 1, pi.np)

One == Py(1)

\* 2.0 * np.pi * freq: the carried number is already the angular frequency
TwoPiTimes(freq) == IF IsExc(freq) \/ freq.den = 0 THEN freq ELSE Mul(One, freq)

-----------------------------------------------------------------------------
(* ModelCircuitParent: the primitives *)

\* the exception raised while evaluating the arguments of a call, if any
ArgExc(args) ==
    IF \E i \in 1..Len(args) : IsExc(args[i])
    THEN args[CHOOSE i \in 1..Len(args) :
                  IsExc(args[i]) /\ \A j \in 1..(i - 1) : ~IsExc(args[j])]
    ELSE [k |-> "ok"]

_inductor(freq, linf) ==
    IF IsExc(ArgExc(<<freq, linf>>)) THEN ArgExc(<<freq, linf>>)
    ELSE IF IsZero(linf) THEN Exc("ValueError", "Inductance (linf) cannot be zero.")
    ELSE IF IsNeg(freq) THEN Exc("ValueError", "Frequency cannot be negative.")
    ELSE Mul(Mul(TwoPiTimes(freq), linf), Num(0, 1, 1, FALSE))

\* _q_from_f0 without its check of f0
_q_from_f0_any_f0(r, f0, p) ==
    IF IsExc(ArgExc(<<r, f0, p>>)) THEN ArgExc(<<r, f0, p>>)
    ELSE IF IsZero(r) THEN Exc("ValueError", "Resistance r cannot be zero.")
    ELSE Div(One, Mul(r, Pow(TwoPiTimes(f0), p)))

_q_from_f0(r, f0, p) ==
    IF IsExc(ArgExc(<<r, f0, p>>)) THEN ArgExc(<<r, f0, p>>)
    ELSE IF IsZero(r) THEN Exc("ValueError", "Resistance r cannot be zero.")
    ELSE IF ~IsPos(f0) THEN Exc("ValueError", "Resonant frequency f0 must be positive.")
    ELSE Div(One, Mul(r, Pow(TwoPiTimes(f0), p)))

\* _cpe without its check of freq = 0 with pf < 0
_cpe_any_negative_power(freq, q, pf, pi) ==
    IF IsExc(ArgExc(<<freq, q, pf, pi>>)) THEN ArgExc(<<freq, q, pf, pi>>)
    ELSE IF IsZero(q) THEN Exc("ValueError", "Parameter q cannot be zero.")
    ELSE IF IsNeg(freq)
         THEN Exc("ValueError", "Frequency must be non-negative for CPE model.")
    ELSE IF IsZero(freq) /\ IsPos(pf)
         THEN Exc("ValueError", "freq=0 and pf>0 results in division by zero in CPE.")
    ELSE LET phase_factor == JPow(pi)
             omega_exp == Pow(TwoPiTimes(freq), pf)
         IN Div(One, Mul(Mul(q, phase_factor), omega_exp))

_cpe(freq, q, pf, pi) ==
    IF IsExc(ArgExc(<<freq, q, pf, pi>>)) THEN ArgExc(<<freq, q, pf, pi>>)
    ELSE IF IsZero(q) THEN Exc("ValueError", "Parameter q cannot be zero.")
    ELSE IF IsNeg(freq)
         THEN Exc("ValueError", "Frequency must be non-negative for CPE model.")
    ELSE IF IsZero(freq) /\ IsPos(pf)
         THEN Exc("ValueError", "freq=0 and pf>0 results in division by zero in CPE.")
    ELSE IF IsZero(freq) /\ IsNeg(pf)
         THEN Exc("ValueError", "freq=0 and pf<0 is undefined (0 to a negative power).")
    ELSE LET phase_factor == JPow(pi)
             omega_exp == Pow(TwoPiTimes(freq), pf)
         IN Div(One, Mul(Mul(q, phase_factor), omega_exp))

\* 1.0 / z and x + y, bit for bit where the operands are carried as doubles
Inverse(z) == IF z.k = "double" THEN DoubleReciprocal(z) ELSE Div(One, z)

Sum(x, y) == IF x.k = "double" /\ y.k = "double" THEN DoubleAdd(x, y) ELSE Add(x, y)

\* denominator = (1.0 / z_1) + (1.0 / z_2); result = 1.0 / denominator
Admittances(z_1, z_2) ==
    CHOOSE result \in {Inverse(denominator) :
                          denominator \in {Sum(Inverse(z_1), Inverse(z_2))}} : TRUE

\* the combination of z_1 with itself
_parallel_first(z_1, z_2) ==
    IF IsExc(ArgExc(<<z_1, z_2>>)) THEN ArgExc(<<z_1, z_2>>)
    ELSE IF IsZero(z_1) \/ IsZero(z_2)
    THEN Exc("ValueError", "Cannot take parallel of impedance 0 (=> infinite admittance).")
    ELSE Admittances(z_1, z_1)

_parallel(z_1, z_2) ==
    IF IsExc(ArgExc(<<z_1, z_2>>)) THEN ArgExc(<<z_1, z_2>>)
    ELSE IF IsZero(z_1) \/ IsZero(z_2)
    THEN Exc("ValueError", "Cannot take parallel of impedance 0 (=> infinite admittance).")
    ELSE Admittances(z_1, z_2)

\* A numpy array is [k |-> "array", shape, v]: v holds the elements in order
\* (numpy scalars), shape is the numpy shape tuple.
Array(v) == [k |-> "array", shape |-> <<Len(v)>>, v |-> v]

AsNumpy(x) == IF x.k = "num" THEN [x EXCEPT !.np = TRUE] ELSE x

\* the first exception raised while a list is built element by element
FirstExc(v) ==
    IF \E i \in 1..Len(v) : IsExc(v[i])
    THEN v[CHOOSE i \in 1..Len(v) : IsExc(v[i]) /\ \A j \in 1..(i - 1) : ~IsExc(v[j])]
    ELSE [k |-> "ok"]

\* np.array(list): the exception that stopped the list's construction, or the array
NpArray(v) ==
    IF IsExc(FirstExc(v)) THEN FirstExc(v)
    ELSE Array([i \in 1..Len(v) |-> AsNumpy(v[i])])

_parallel_arrays(z_1, z_2) ==
    IF z_1.k # "array" THEN z_1
    ELSE IF z_2.k # "array" THEN z_2
    ELSE IF (\E i \in 1..Len(z_1.v) : IsZero(z_1.v[i]))
            \/ (\E i \in 1..Len(z_2.v) : IsZero(z_2.v[i]))
    THEN Exc("ValueError", "Cannot take parallel of impedance 0 (=> infinite admittance).")
    ELSE Array([i \in 1..Len(z_1.v) |->
                   Div(Np(1), Add(Div(Np(1), z_1.v[i]), Div(Np(1), z_2.v[i])))])

-----------------------------------------------------------------------------
(* ModelCircuitParent and its two subclasses.  A circuit model object is   *)
(* the record [name, negative_rinf, q, par_second, par_other_sec]; its     *)
(* three dictionaries are functions from the keys they hold.  A method is  *)
(* an operator from the object (and the arguments) to                      *)
(* [mc |-> the object afterwards, out |-> what the call returned or        *)
(* raised, uses |-> the values of par["Rinf"] the call read].              *)

Keys == {"Rinf", "Rh", "Rm", "Rl", "Linf", "Re", "Ph", "Pm", "Pl",
         "Fh", "Fm", "Fl", "Pef", "Pei", "Qe"}

EmptyDict == [x \in {} |-> One]

\* d[key] = v
Store(d, key, v) == [x \in DOMAIN d \cup {key} |-> IF x = key THEN v ELSE d[x]]

\* d[key], a KeyError when the key is missing
Get(d, key) == IF key \in DOMAIN d THEN d[key] ELSE Exc("KeyError", key)

ModelCircuitParent(name, negative_rinf, q, par_second, par_other_sec) ==
    [name |-> name, negative_rinf |-> negative_rinf, q |-> q,
     par_second |-> par_second, par_other_sec |-> par_other_sec]

ModelCircuitSeries(negative_rinf, q, par_second, par_other_sec) ==
    ModelCircuitParent("Series Circuit", negative_rinf, q, par_second, par_other_sec)

ModelCircuitParallel(negative_rinf, q, par_second, par_other_sec) ==
    ModelCircuitParent("Parallel Circuit", negative_rinf, q, par_second, par_other_sec)

\* The statements of _calculate_secondary_parameters in order: each is the
\* value of its right-hand side and the dictionary entry it is stored in
\* (d = "local" for the three locals Qh, Qm, Ql).
SecondaryStatements(par) ==
    LET Rinf == Get(par, "Rinf")
        Rh == Get(par, "Rh")
        Rm == Get(par, "Rm")
        Rl == Get(par, "Rl")
        Qh == _q_from_f0(Rh, Get(par, "Fh"), Get(par, "Ph"))
        Qm == _q_from_f0(Rm, Get(par, "Fm"), Get(par, "Pm"))
        Ql == _q_from_f0(Rl, Get(par, "Fl"), Get(par, "Pl"))
        S1 == Add(Rinf, Rh)
        S2 == Add(Add(Rinf, Rh), Rm)
        S3 == Add(Add(Add(Rinf, Rh), Rm), Rl)
        Sq(x) == Pow(x, Py(2))
        Ch == Div(One, Mul(TwoPiTimes(Get(par, "Fh")), Rh))
        Cm == Div(One, Mul(TwoPiTimes(Get(par, "Fm")), Rm))
        Cl == Div(One, Mul(TwoPiTimes(Get(par, "Fl")), Rl))
        St(d, key, v) == [d |-> d, key |-> key, v |-> v]
    IN << St("local", "Qh", Qh), St("local", "Qm", Qm), St("local", "Ql", Ql),
          St("q", "Qh", Qh), St("q", "Qm", Qm), St("q", "Ql", Ql),
          St("par_second", "R0", S3),
          St("par_second", "pRh", Div(Mul(Rinf, S1), Rh)),
          St("par_second", "pQh", Mul(Qh, Sq(Div(Rh, S1)))),
          St("par_second", "pRm", Div(Mul(S1, S2), Rm)),
          St("par_second", "pQm", Mul(Qm, Sq(Div(Rm, S2)))),
          St("par_second", "pRl", Div(Mul(S2, S3), Rl)),
          St("par_second", "pQl", Mul(Ql, Sq(Div(Rl, S3)))),
          St("par_other_sec", "Ch", Ch),
          St("par_other_sec", "pCh", Mul(Ch, Sq(Div(Rh, S1)))),
          St("par_other_sec", "Cm", Cm),
          St("par_other_sec", "pCm", Mul(Cm, Sq(Div(Rm, S2)))),
          St("par_other_sec", "Cl", Cl),
          St("par_other_sec", "pCl", Mul(Cl, Sq(Div(Rl, S3)))) >>

\* one statement self.<d>[key] = v
StoreIn(mc, d, key, v) ==
    IF d = "q" THEN [mc EXCEPT !.q = Store(@, key, v)]
    ELSE IF d = "par_second" THEN [mc EXCEPT !.par_second = Store(@, key, v)]
    ELSE IF d = "par_other_sec" THEN [mc EXCEPT !.par_other_sec = Store(@, key, v)]
    ELSE mc

\* the statements from the i-th on, run until one raises; n counts the
\* statements that completed
RECURSIVE RunStatements(_, _, _)
RunStatements(mc, stmts, i) ==
    IF i > Len(stmts) THEN [mc |-> mc, out |-> [k |-> "ok"], n |-> i - 1]
    ELSE IF IsExc(stmts[i].v) THEN [mc |-> mc, out |-> stmts[i].v, n |-> i - 1]
    ELSE RunStatements(StoreIn(mc, stmts[i].d, stmts[i].key, stmts[i].v), stmts, i + 1)

\* uses: the values of par["Rinf"] that the derivation read; it reads Rinf
\* from the statement for R0 on, which it reaches when Qh, Qm and Ql were computed
_calculate_secondary_parameters(mc, par) ==
    LET Result(r) ==
            [mc |-> r.mc, out |-> r.out, uses |-> IF r.n >= 3 THEN {par["Rinf"]} ELSE {}]
    IN Result(RunStatements(mc, SecondaryStatements(par), 1))

\* the copy without the sign flip
CopyKeepingRinf(mc, parameters) == parameters

\* par = parameters.copy(); if self.negative_rinf: par['Rinf'] = -par['Rinf']
CopyWithRinfSign(mc, parameters) ==
    IF mc.negative_rinf THEN [parameters EXCEPT !["Rinf"] = Neg(@)] ELSE parameters

\* The dictionary that par names: in run_model and run_rock a copy of the
\* caller's (par = parameters.copy()), in estimate_rock the caller's own
\* (par = parameters).  A method assigns to par only.
par_is_copy_never(op) == FALSE

par_is_copy(op) == op \in {"run_model", "run_rock"}

\* par when the method is left: run_model and run_rock assign par['Rinf']
\* when the flag is set, estimate_rock assigns nothing
par_of(mc, op, parameters) ==
    IF op = "estimate_rock" THEN parameters ELSE CopyWithRinfSign(mc, parameters)

\* the caller's dictionary when the method is left
parameters_after(mc, op, parameters) ==
    IF par_is_copy(op) THEN parameters ELSE par_of(mc, op, parameters)

\* the derivation run whatever the flag says
SecondaryAlways(mc, par, old_par_second) == _calculate_secondary_parameters(mc, par)

\* if not old_par_second: self._calculate_secondary_parameters(par)
SecondaryUnlessOld(mc, par, old_par_second) ==
    IF old_par_second THEN [mc |-> mc, out |-> [k |-> "ok"], uses |-> {}]
    ELSE _calculate_secondary_parameters(mc, par)

\* the first statement's exception among the results of consecutive statements
FirstRaised(outs) ==
    IF \E i \in 1..Len(outs) : IsExc(outs[i])
    THEN outs[CHOOSE i \in 1..Len(outs) :
                  IsExc(outs[i]) /\ \A j \in 1..(i - 1) : ~IsExc(outs[j])]
    ELSE [k |-> "ok"]

\* the loop of Series.run_rock over the frequencies
Series_rock_loop(self, par, freq_array) ==
    [i \in 1..Len(freq_array.v) |->
        Add(_parallel(_cpe(freq_array.v[i], Get(self.q, "Qm"), Get(par, "Pm"), Get(par, "Pm")),
                      Get(par, "Rm")),
            _parallel(_cpe(freq_array.v[i], Get(self.q, "Ql"), Get(par, "Pl"), Get(par, "Pl")),
                      Get(par, "Rl")))]

\* Series.run_rock after the derivation, whose outcome is d
Series_rock_rest(par, freq_array, d) ==
    [mc |-> d.mc,
     out |-> IF IsExc(d.out) THEN d.out ELSE NpArray(Series_rock_loop(d.mc, par, freq_array)),
     uses |-> d.uses]

Series_run_rock(mc, parameters, freq_array, old_par_second) ==
    Series_rock_rest(CopyWithRinfSign(mc, parameters), freq_array,
                     SecondaryUnlessOld(mc, CopyWithRinfSign(mc, parameters), old_par_second))

\* z = zinf + zarch + z_rock + zarce, or the first exception of the
\* statements that compute the terms
Series_sum(par, freq_array, d, rock, zinf, z_cpeh, zarch, z_cpee, zarce, raised) ==
    [mc |-> rock.mc,
     out |-> IF IsExc(raised) THEN raised
             ELSE [k |-> "pair",
                   z |-> NpArray([i \in 1..Len(freq_array.v) |->
                            Add(Add(Add(zinf[i], zarch[i]), rock.out.v[i]), zarce[i])]),
                   rock |-> rock.out],
     uses |-> d.uses \cup rock.uses
              \cup (IF ~IsExc(rock.out) /\ Len(freq_array.v) > 0 /\ ~IsExc(zinf[1])
                    THEN {par["Rinf"]} ELSE {})]

\* the two arcs that are the parallel of a CPE and a resistance
Series_arcs(par, freq_array, d, rock, zinf, z_cpeh, zarch, z_cpee, zarce) ==
    Series_sum(par, freq_array, d, rock, zinf, z_cpeh, zarch, z_cpee, zarce,
               FirstRaised(<<rock.out, FirstExc(zinf), FirstExc(z_cpeh), FirstExc(zarch),
                             FirstExc(z_cpee), FirstExc(zarce)>>))

\* the statements of Series.run_model after run_rock, the inductor first
Series_terms(par, freq_array, d, rock, zinf, z_cpeh, z_cpee) ==
    Series_arcs(par, freq_array, d, rock, zinf, z_cpeh,
                [i \in 1..Len(freq_array.v) |-> _parallel(z_cpeh[i], Get(par, "Rh"))],
                z_cpee,
                [i \in 1..Len(freq_array.v) |-> _parallel(z_cpee[i], Get(par, "Re"))])

Series_model_rest(par, freq_array, d, rock) ==
    Series_terms(par, freq_array, d, rock,
                 [i \in 1..Len(freq_array.v) |->
                     Add(_inductor(freq_array.v[i], Get(par, "Linf")), Get(par, "Rinf"))],
                 [i \in 1..Len(freq_array.v) |->
                     _cpe(freq_array.v[i], Get(rock.mc.q, "Qh"), Get(par, "Ph"), Get(par, "Ph"))],
                 [i \in 1..Len(freq_array.v) |->
                     _cpe(freq_array.v[i], Get(par, "Qe"), Get(par, "Pef"), Get(par, "Pei"))])

\* Series.run_model with the inner run_rock deriving the cache once more
Series_model_derived_again(par, freq_array, d) ==
    IF IsExc(d.out) THEN d
    ELSE Series_model_rest(par, freq_array, d, Series_run_rock(d.mc, par, freq_array, FALSE))

\* Series.run_model after the derivation, whose outcome is d
Series_model_derived(par, freq_array, d) ==
    IF IsExc(d.out) THEN d
    ELSE Series_model_rest(par, freq_array, d, Series_run_rock(d.mc, par, freq_array, TRUE))

Series_run_model(mc, parameters, freq_array, old_par_second) ==
    Series_model_derived(CopyWithRinfSign(mc, parameters), freq_array,
                         SecondaryUnlessOld(mc, CopyWithRinfSign(mc, parameters),
                                            old_par_second))

\* the loop of Parallel.run_rock over the frequencies; par2 is self.par_second
Parallel_rock_loop(par2, par, freq_array) ==
    [i \in 1..Len(freq_array.v) |->
        _parallel(_parallel(Add(Get(par2, "pRm"),
                                _cpe(freq_array.v[i], Get(par2, "pQm"),
                                     Get(par, "Pm"), Get(par, "Pm"))),
                            Add(Get(par2, "pRl"),
                                _cpe(freq_array.v[i], Get(par2, "pQl"),
                                     Get(par, "Pl"), Get(par, "Pl")))),
                  Get(par2, "R0"))]

\* Parallel.run_rock after the derivation, whose outcome is d
Parallel_rock_rest(par, freq_array, d) ==
    [mc |-> d.mc,
     out |-> IF IsExc(d.out) THEN d.out
             ELSE NpArray(Parallel_rock_loop(d.mc.par_second, par, freq_array)),
     uses |-> d.uses]

Parallel_run_rock(mc, parameters, freq_array, old_par_second) ==
    Parallel_rock_rest(CopyWithRinfSign(mc, parameters), freq_array,
                       SecondaryUnlessOld(mc, CopyWithRinfSign(mc, parameters), old_par_second))

\* z = zinf + z_rock_line_h + zarce, or the first exception of the
\* statements that compute the terms
Parallel_sum(freq_array, d, rock, z_rock_line_h, zinf, zarce, raised) ==
    [mc |-> rock.mc,
     out |-> IF IsExc(raised) THEN raised
             ELSE [k |-> "pair",
                   z |-> NpArray([i \in 1..Len(freq_array.v) |->
                            Add(Add(zinf[i], z_rock_line_h.v[i]), zarce[i])]),
                   rock |-> rock.out],
     uses |-> d.uses \cup rock.uses]

\* the statements of Parallel.run_model after z_rock_line_h
Parallel_arcs(freq_array, d, rock, z_rock_line_h, zinf, z_cpee, zarce) ==
    Parallel_sum(freq_array, d, rock, z_rock_line_h, zinf, zarce,
                 FirstRaised(<<z_rock_line_h, FirstExc(zinf), FirstExc(z_cpee),
                               FirstExc(zarce)>>))

Parallel_terms(par, freq_array, d, rock, z_rock_line_h, z_cpee) ==
    Parallel_arcs(freq_array, d, rock, z_rock_line_h,
                  [i \in 1..Len(freq_array.v) |->
                      _inductor(freq_array.v[i], Get(par, "Linf"))],
                  z_cpee,
                  [i \in 1..Len(freq_array.v) |-> _parallel(z_cpee[i], Get(par, "Re"))])

\* the statements of Parallel.run_model after run_rock: the line of the high
\* arc, in parallel with the rock
Parallel_lines(par, freq_array, d, rock, z_line_h) ==
    Parallel_terms(par, freq_array, d, rock,
                   IF IsExc(rock.out) THEN rock.out
                   ELSE IF IsExc(z_line_h) THEN z_line_h
                   ELSE _parallel_arrays(z_line_h, rock.out),
                   [i \in 1..Len(freq_array.v) |->
                       _cpe(freq_array.v[i], Get(par, "Qe"), Get(par, "Pef"), Get(par, "Pei"))])

Parallel_model_rest(par, freq_array, d, rock) ==
    Parallel_lines(par, freq_array, d, rock,
                   NpArray([i \in 1..Len(freq_array.v) |->
                       Add(Get(rock.mc.par_second, "pRh"),
                           _cpe(freq_array.v[i], Get(rock.mc.par_second, "pQh"),
                                Get(par, "Ph"), Get(par, "Ph")))]))

\* Parallel.run_model after the derivation, whose outcome is d
Parallel_model_derived(par, freq_array, d) ==
    IF IsExc(d.out) THEN d
    ELSE Parallel_model_rest(par, freq_array, d,
                             Parallel_run_rock(d.mc, par, freq_array, TRUE))

Parallel_run_model(mc, parameters, freq_array, old_par_second) ==
    Parallel_model_derived(CopyWithRinfSign(mc, parameters), freq_array,
                           SecondaryUnlessOld(mc, CopyWithRinfSign(mc, parameters),
                                              old_par_second))
\* dispatch on the class of the object
run_rock(mc, parameters, freq_array, old_par_second) ==
    IF mc.name = "Series Circuit"
    THEN Series_run_rock(mc, parameters, freq_array, old_par_second)
    ELSE Parallel_run_rock(mc, parameters, freq_array, old_par_second)

run_model(mc, parameters, freq_array, old_par_second) ==
    IF mc.name = "Series Circuit"
    THEN Series_run_model(mc, parameters, freq_array, old_par_second)
    ELSE Parallel_run_model(mc, parameters, freq_array, old_par_second)

\* estimate_rock without its comparison of the shapes
estimate_rock_any_shape(mc, parameters, freq_array, impedance) ==
    LET par == parameters
        Loop ==
            [i \in 1..Len(freq_array.v) |->
                LET f == freq_array.v[i]
                    z_cpee == _cpe(f, Get(par, "Qe"), Get(par, "Pef"), Get(par, "Pei"))
                    zarce == _parallel(z_cpee, Get(par, "Re"))
                    z_cpeh == _cpe(f, Get(mc.q, "Qh"), Get(par, "Ph"), Get(par, "Ph"))
                    zarch == _parallel(z_cpeh, Get(par, "Rh"))
                    Appended(e) == IF IsExc(e) THEN e ELSE Sub(Add(zarch, e), Get(par, "Rh"))
                IN Appended(zarce)]
        Result(z_to_substract) ==
            IF IsExc(z_to_substract) THEN z_to_substract
            ELSE [k |-> "array", shape |-> impedance.shape, v |-> impedance.v]
    IN [mc |-> mc, out |-> Result(NpArray(Loop)), uses |-> {}]

estimate_rock(mc, parameters, freq_array, impedance) ==
    LET par == parameters
        Loop ==
            [i \in 1..Len(freq_array.v) |->
                LET f == freq_array.v[i]
                    z_cpee == _cpe(f, Get(par, "Qe"), Get(par, "Pef"), Get(par, "Pei"))
                    zarce == _parallel(z_cpee, Get(par, "Re"))
                    z_cpeh == _cpe(f, Get(mc.q, "Qh"), Get(par, "Ph"), Get(par, "Ph"))
                    zarch == _parallel(z_cpeh, Get(par, "Rh"))
                    Appended(e) == IF IsExc(e) THEN e ELSE Sub(Add(zarch, e), Get(par, "Rh"))
                IN Appended(zarce)]
        Result(z_to_substract) ==
            IF IsExc(z_to_substract) THEN z_to_substract
            ELSE IF z_to_substract.shape # impedance.shape
                 THEN Exc("ValueError", "Shape mismatch")
            ELSE [k |-> "array", shape |-> impedance.shape,
                  v |-> [i \in 1..Len(impedance.v) |->
                            Sub(impedance.v[i], z_to_substract.v[i])]]
    IN [mc |-> mc, out |-> Result(NpArray(Loop)), uses |-> {}]

-----------------------------------------------------------------------------
(* FitBuilder: the pure parts.  A parameter dictionary is a function from  *)
(* its keys; a vector of scaled free parameters is a function from the     *)
(* free keys, the key standing for the position the code gives it.  An      *)
(* operator that can raise returns [raised, out].                           *)

\* key.startswith('P')
StartsWithP(key) == key \in {"Ph", "Pm", "Pl", "Pef", "Pei"}

\* the order of the keys in the slider dictionaries; Rx, a key outside the
\* vocabulary that a caller of FitBuilder may use, comes last
KeyOrder ==
    <<"Linf", "Rinf", "Rh", "Fh", "Ph", "Rm", "Fm", "Pm", "Rl", "Fl", "Pl",
      "Re", "Qe", "Pef", "Pei", "Rx">>

\* np.inf (sign = 1) and -np.inf (sign = -1)
Inf(sign) == [NonFinite EXCEPT !.re = sign]

\* the greatest double below x
Below(x) == [x EXCEPT !.ulp = -1]

\* x <= y for real numbers, infinities included
Leq(x, y) ==
    IF x.den = 0 THEN x.re < 0 \/ (y.den = 0 /\ y.re > 0)
    ELSE IF y.den = 0 THEN y.re > 0
    ELSE x.re * y.den <= y.re * x.den

\* the number of decimal digits of n, less one
RECURSIVE Digits(_)
Digits(n) == IF n < 10 THEN 0 ELSE 1 + Digits(n \div 10)

\* np.log10(value) for a value > 0 that is a power of ten
Log10(value) ==
    IF value.den = 0 THEN value
    ELSE IF value.re >= value.den THEN Np(Digits(value.re))
    ELSE Np(-Digits(value.den))

\* 10 ** x for an integer x
Exp10(x) ==
    IF x.den = 0 THEN (IF x.re < 0 THEN Np(0) ELSE x)
    ELSE IF x.re >= 0 THEN Num(IntPow(10, x.re), 0, 1, x.np)
    ELSE Num(1, 0, IntPow(10, -x.re), x.np)

\* value * 10.0
TimesTen(value) ==
    IF value.k = "double" THEN DoubleTimesTen(value)
    ELSE IF value.den = 0 THEN value ELSE Mul(value, Py(10))

\* x / 10.0; the greatest double below -10.0 divided by 10.0 is the
\* greatest double below -1.0
DivTen(x) ==
    IF x.k = "double" THEN DoubleDivTen(x)
    ELSE IF x.den = 0 THEN x
    ELSE IF x.ulp = -1 THEN Below(Div([x EXCEPT !.ulp = 0], Py(10)))
    ELSE Div(x, Py(10))

\* {**a, **b}
Merge(a, b) == [key \in DOMAIN a \cup DOMAIN b |-> IF key \in DOMAIN b THEN b[key] ELSE a[key]]

Range(seq) == {seq[i] : i \in 1..Len(seq)}

\* the keys of a dictionary as a list
KeysOf(d) == SelectSeq(KeyOrder, LAMBDA key : key \in DOMAIN d)

\* _scale_params without the test value <= 0
_scale_params_unchecked(keys, params) ==
    LET Scaled(key) ==
            LET Of(value) ==
                    IF IsExc(value) THEN value
                    ELSE IF StartsWithP(key) THEN TimesTen(value)
                    ELSE IF value.re <= 0 THEN Np(0)
                    ELSE Log10(value)
            IN Of(Get(params, key))
        Result(raised) ==
            IF IsExc(raised) THEN [raised |-> TRUE, out |-> raised]
            ELSE [raised |-> FALSE, out |-> [key \in Range(keys) |-> AsNumpy(Scaled(key))]]
    IN Result(FirstExc([i \in 1..Len(keys) |-> Scaled(keys[i])]))

_scale_params(keys, params) ==
    LET Scaled(key) ==
            LET Of(value) ==
                    IF IsExc(value) THEN value
                    ELSE IF StartsWithP(key) THEN TimesTen(value)
                    ELSE IF value.re <= 0 /\ (value.den # 0 \/ value.re < 0)
                         THEN Exc("ValueError", "Parameter must be > 0")
                    ELSE Log10(value)
            IN Of(Get(params, key))
        Result(raised) ==
            IF IsExc(raised) THEN [raised |-> TRUE, out |-> raised]
            ELSE [raised |-> FALSE, out |-> [key \in Range(keys) |-> AsNumpy(Scaled(key))]]
    IN Result(FirstExc([i \in 1..Len(keys) |-> Scaled(keys[i])]))

\* _descale_params that hands back the scaled values
_descale_params_scaled(keys, x) == [key \in Range(keys) |-> AsNumpy(x[key])]

_descale_params(keys, x) ==
    [key \in Range(keys) |->
        IF StartsWithP(key) THEN AsNumpy(DivTen(x[key])) ELSE AsNumpy(Exp10(x[key]))]

\* the pair (lower_scaled, upper_scaled)
_build_bounds(lower_bounds, upper_bounds, free_keys) ==
    LET Upper(lower_scaled, upper_scaled) ==
            IF upper_scaled.raised THEN upper_scaled
            ELSE [raised |-> FALSE, out |-> <<lower_scaled.out, upper_scaled.out>>]
        Lower(lower_scaled) ==
            IF lower_scaled.raised THEN lower_scaled
            ELSE Upper(lower_scaled, _scale_params(free_keys, upper_bounds))
    IN Lower(_scale_params(free_keys, lower_bounds))

\* the loop of set_bounds without the two statements after it
set_bounds_loop(lower_bounds, upper_bounds, slider_configurations) ==
    LET Limit(key, config) ==
            IF slider_configurations[key].type = "EPowerSliderWithTicks"
            THEN Exp10(Py(config))
            ELSE Py(config)
    IN << [key \in DOMAIN lower_bounds \cup DOMAIN slider_configurations |->
              IF key \in DOMAIN slider_configurations
              THEN Limit(key, slider_configurations[key].min)
              ELSE lower_bounds[key]],
          [key \in DOMAIN upper_bounds \cup DOMAIN slider_configurations |->
              IF key \in DOMAIN slider_configurations
              THEN Limit(key, slider_configurations[key].max)
              ELSE upper_bounds[key]] >>

\* FitBuilder.set_bounds on an object whose bounds are lower_bounds and
\* upper_bounds: the two dictionaries afterwards, as the pair
\* <<lower_bounds, upper_bounds>>.  The loop stores the bounds of the
\* configured keys; the two statements after it store those of Pei.
set_bounds(lower_bounds, upper_bounds, slider_configurations) ==
    LET Limit(key, config) ==
            IF slider_configurations[key].type = "EPowerSliderWithTicks"
            THEN Exp10(Py(config))
            ELSE Py(config)
    IN << [key \in DOMAIN lower_bounds \cup DOMAIN slider_configurations \cup {"Pei"} |->
              IF key = "Pei" THEN Inf(-1)
              ELSE IF key \in DOMAIN slider_configurations
                   THEN Limit(key, slider_configurations[key].min)
              ELSE lower_bounds[key]],
          [key \in DOMAIN upper_bounds \cup DOMAIN slider_configurations \cup {"Pei"} |->
              IF key = "Pei" THEN Inf(1)
              ELSE IF key \in DOMAIN slider_configurations
                   THEN Limit(key, slider_configurations[key].max)
              ELSE upper_bounds[key]] >>

\* {k: initial_params[k] for k in self.disabled_variables if k in initial_params},
\* with the scaled values in the place of the values
locked_params_scaled(initial_params, disabled_variables) ==
    _scale_params(KeysOf([key \in disabled_variables \cap DOMAIN initial_params |-> 0]),
                  initial_params).out

\* no key is locked
locked_params_none(initial_params, disabled_variables) ==
    [key \in {} |-> initial_params[key]]

\* {k: initial_params[k] for k in self.disabled_variables if k in initial_params}
locked_params(initial_params, disabled_variables) ==
    [key \in disabled_variables \cap DOMAIN initial_params |-> initial_params[key]]

\* np.ones(10000) * 1e6
PenaltyLength == 10000
PenaltyValue == 1000000
Penalty == [k |-> "penalty", len |-> PenaltyLength, value |-> PenaltyValue]

\* the length of a - b for one-dimensional arrays of lengths n and m, or
\* numpy's ValueError when the shapes cannot be broadcast together
Broadcast(n, m) ==
    IF n = m \/ m = 1 THEN [k |-> "len", len |-> n]
    ELSE IF n = 1 THEN [k |-> "len", len |-> m]
    ELSE Exc("ValueError", "operands could not be broadcast together")

\* _residual_cole and _residual_bode: both evaluate run_model over the
\* experiment's frequencies and concatenate two weighted differences with
\* the experiment's arrays.  Of the vector the model keeps its length.
\* _weight_function reads Ph, Pm, Pl and Pef, which run_model has read before.
residual(mc, experiment_data, residual_func, params) ==
    LET Vector(shape) ==
            IF IsExc(shape) THEN shape
            ELSE [k |-> "residual", model |-> 2 * shape.len, prior |-> 0, invalid |-> 0]
        Result(m) ==
            [mc |-> m.mc,
             out |-> IF IsExc(m.out) THEN m.out
                     ELSE Vector(Broadcast(Len(m.out.z.v), experiment_data.points))]
    IN Result(run_model(mc, params, experiment_data.freq, FALSE))

\* _residual_wrapper without its try ... except ValueError
_residual_wrapper_uncaught(mc, experiment_data, gaussian_prior, residual_func, free_keys, locked_params_, x_free) ==
    LET free_params == _descale_params(free_keys, x_free)
        full_params == Merge(locked_params_, free_params)
        Result(r) ==
            IF IsExc(r.out)
            THEN [mc |-> r.mc, raised |-> TRUE, out |-> r.out, caught |-> [k |-> "ok"]]
            ELSE [mc |-> r.mc, raised |-> FALSE, caught |-> [k |-> "ok"],
                  out |-> IF gaussian_prior
                          THEN [r.out EXCEPT !.prior = Len(free_keys), !.invalid = 2]
                          ELSE r.out]
    IN Result(residual(mc, experiment_data, residual_func, full_params))

\* _residual_wrapper without the statements under if self.gaussian_prior
_residual_wrapper_model_only(mc, experiment_data, gaussian_prior, residual_func, free_keys, locked_params_, x_free) ==
    LET free_params == _descale_params(free_keys, x_free)
        full_params == Merge(locked_params_, free_params)
        Result(r) ==
            IF IsExc(r.out) /\ r.out.k = "ValueError"
            THEN [mc |-> r.mc, raised |-> FALSE, out |-> Penalty, caught |-> r.out]
            ELSE IF IsExc(r.out)
            THEN [mc |-> r.mc, raised |-> TRUE, out |-> r.out, caught |-> [k |-> "ok"]]
            ELSE [mc |-> r.mc, raised |-> FALSE, caught |-> [k |-> "ok"], out |-> r.out]
    IN Result(residual(mc, experiment_data, residual_func, full_params))

\* fit_model._residual_wrapper; caught is the exception the except clause
\* caught, if any.  _compute_gaussian_prior yields one term for each free
\* key and _compute_invalid_guess_penalty two.
_residual_wrapper(mc, experiment_data, gaussian_prior, residual_func, free_keys, locked_params_, x_free) ==
    LET free_params == _descale_params(free_keys, x_free)
        full_params == Merge(locked_params_, free_params)
        Result(r) ==
            IF IsExc(r.out) /\ r.out.k = "ValueError"
            THEN [mc |-> r.mc, raised |-> FALSE, out |-> Penalty, caught |-> r.out]
            ELSE IF IsExc(r.out)
            THEN [mc |-> r.mc, raised |-> TRUE, out |-> r.out, caught |-> [k |-> "ok"]]
            ELSE [mc |-> r.mc, raised |-> FALSE, caught |-> [k |-> "ok"],
                  out |-> IF gaussian_prior
                          THEN [r.out EXCEPT !.prior = Len(free_keys), !.invalid = 2]
                          ELSE r.out]
    IN Result(residual(mc, experiment_data, residual_func, full_params))

\* (best_fit['Pei'] + 1) % 4. - 1 in double arithmetic.  For the greatest
\* double below -1.0 the sum is -2**-52 exactly, the remainder 4 - 2**-52
\* lies halfway between two doubles and is rounded to 4.0.
PeiNormalized(v) ==
    IF v.den = 0 THEN NonFinite
    ELSE IF v.ulp = -1 /\ v.re = -v.den THEN Num(3, 0, 1, v.np)
    ELSE IF v.ulp = -1
         THEN Below(Num(((v.re + v.den) % (4 * v.den)) - v.den, 0, v.den, v.np))
    ELSE Num(((v.re + v.den) % (4 * v.den)) - v.den, 0, v.den, v.np)

\* lines 120-121 of fit_model
NormalizePei(best_fit) ==
    IF "Pei" \in DOMAIN best_fit
    THEN [best_fit EXCEPT !["Pei"] = PeiNormalized(@)]
    ELSE best_fit

-----------------------------------------------------------------------------
(* The sliders (CustomSliders.py, WidgetSliders.py) and Calculator *)

\* int(x) of the rational n/d: truncation towards zero
Trunc(n, d) == IF n >= 0 THEN n \div d ELSE -((-n) \div d)

Clamp(n, lo, hi) == IF n < lo THEN lo ELSE IF n > hi THEN hi ELSE n

\* DoubleSliderWithTicks._scale_factor
_scale_factor == 1000000

\* DoubleSliderWithTicks.set_value followed by get_value: the slider keeps
\* int(value * 1e6), which QSlider holds within its range, and returns it / 1e6
DoubleSlider(config, value) ==
    Num(Clamp(Trunc(value.re * _scale_factor, value.den),
              config.min * _scale_factor, config.max * _scale_factor),
        0, _scale_factor, FALSE)

\* EPowerSliderWithTicks.set_value_exact followed by get_value
EPowerSlider(config, value) ==
    LET n == IF IsPos(value) THEN Log10(value) ELSE Py(0)
    IN [Exp10(DoubleSlider(config, n)) EXCEPT !.np = FALSE]

\* slider.set_value_exact(val); values[key] = slider.get_value()
SliderValue(slider_configurations, key, val) ==
    IF slider_configurations[key].type = "EPowerSliderWithTicks"
    THEN EPowerSlider(slider_configurations[key], val)
    ELSE DoubleSlider(slider_configurations[key], val)

\* WidgetSliders.set_all_variables: the dictionary it emits, or its ValueError
set_all_variables(slider_configurations, variables) ==
    IF DOMAIN variables # DOMAIN slider_configurations
    THEN [raised |-> TRUE, out |-> Exc("ValueError", "Incoming keys do not match the slider keys.")]
    ELSE [raised |-> FALSE,
          out |-> [key \in DOMAIN variables |->
                      SliderValue(slider_configurations, key, variables[key])]]

\* Calculator.run_model_manual: what it leaves in the circuit model object.
\* Its first statement that touches the object is run_model over the
\* experiment's frequencies; the calls after it either derive the same cache
\* from the same params or leave the cache alone (old_par_second=True), and
\* an exception ends the method.
run_model_manual(mc, experiment_data, params) ==
    run_model(mc, params, experiment_data.freq, FALSE).mc

-----------------------------------------------------------------------------
(* TimeDomainBuilder.  The inverse real FFT and the Butterworth filter work *)
(* with irrational factors; their joint result for a finite spectrum is     *)
(* taken from a set of sequences of the length numpy gives it, and it is    *)
(* NaN throughout when a bin of the spectrum is not finite.  Everything     *)
(* around them (the grids, the indices, the sums) is computed as the code   *)
(* computes it.  Index i of a numpy array is element i + 1 of the sequence. *)

\* self.N, the number of samples (2 ** 14 in the code), and self.T
N == 8
T == 4

\* x < y for finite real numbers
Less(x, y) == x.re * y.den < y.re * x.den

\* np.searchsorted(a, v, side) for an ascending sequence a
searchsorted(a, v, side) ==
    Cardinality({i \in 1..Len(a) : IF side = "right" THEN Leq(a[i], v) ELSE Less(a[i], v)})

\* np.linspace(fmin, fmax, int(n_freq + 1)) with n_freq = N // 2, fmin = 0,
\* fmax = n_freq * df and df = 1.0 / T
linspace == [i \in 1..(N \div 2 + 1) |-> Num(i - 1, 0, T, TRUE)]

\* the grid left as linspace built it
freq_even_from_zero == Array(linspace)

\* z_complex left as run_rock returned it
AsReturned(z_complex) == z_complex

\* the floor that replaces the zero frequency: 0.001 in the code, below
\* the grid's step df; here 1/8, below df = 1/T, which keeps the products
\* of the circuit formulas within TLC's integers
Floor == Num(1, 0, 8, TRUE)

\* freq_even after freq_even[0] = 0.001
freq_even == Array([linspace EXCEPT ![1] = Floor])

\* z.real as a complex number
Real(z) == IF z.den = 0 THEN z ELSE Num(z.re, 0, z.den, z.np)

\* z_complex after z_complex[0] = z_complex[0].real
WithRealFirst(z_complex) == [z_complex EXCEPT !.v[1] = Real(@)]

\* the sequences that stand for the filtered inverse FFT of a finite spectrum
Waveforms(n) ==
    {[i \in 1..n |-> Np(IF i <= k THEN a ELSE 0)] : a \in {-1, 1}, k \in {1, 3, 5}}

\* np.fft.irfft(z_complex) followed by sig.filtfilt: 2 * (len - 1) samples
FilteredInverse(z_complex, samples) ==
    IF \A i \in 1..Len(z_complex.v) : IsFinite(z_complex.v[i]) THEN samples
    ELSE [i \in 1..(2 * (Len(z_complex.v) - 1)) |-> NonFinite]

\* np.cumsum(a)[i - 1]
RECURSIVE cumsum(_, _)
cumsum(a, i) == IF i = 0 THEN Np(0) ELSE Add(cumsum(a, i - 1), a[i])

\* a[index] of a numpy array
Item(a, index) ==
    IF index < Len(a) THEN a[index + 1]
    ELSE Exc("IndexError", "index out of bounds")

\* volt_down = volt_up[index] - volt_up
Falling(volt_up, at) ==
    IF IsExc(at) THEN at ELSE Array([i \in 1..Len(volt_up) |-> Sub(at, volt_up[i])])

\* _fourier_transform_pulse after the filter: the time axis, volt_up and volt_down
Pulse(t, volt_up) ==
    [t |-> t, volt_up |-> volt_up,
     volt_down |-> Falling(volt_up, Item(volt_up, searchsorted(t, Np(2), "right")))]

_fourier_transform_pulse(z_inversefft, dt) ==
    Pulse([i \in 1..Len(z_inversefft) |-> Mul(Np(i - 1), dt)],
          [i \in 1..Len(z_inversefft) |-> cumsum(z_inversefft, i - 1)])

\* keys and seconds of _integration_variables
IntegralKeys ==
    <<"V(.1ms)", "V(1ms)", "V(10)", "V(100)", "V(200)", "V(400)", "V(800)", "V(1.2s)", "V(1.6s)">>

Seconds ==
    <<Num(1, 0, 10000, FALSE), Num(1, 0, 1000, FALSE), Num(1, 0, 100, FALSE),
      Num(1, 0, 10, FALSE), Num(2, 0, 10, FALSE), Num(4, 0, 10, FALSE),
      Num(8, 0, 10, FALSE), Num(12, 0, 10, FALSE), Num(16, 0, 10, FALSE)>>

\* the loop of _integration_variables from its i-th pair on; an IndexError
\* leaves the entries stored before it
RECURSIVE IntegrationLoop(_, _, _, _)
IntegrationLoop(_integral_variables, t, v_down, i) ==
    IF i > Len(IntegralKeys) THEN [d |-> _integral_variables, out |-> [k |-> "ok"]]
    ELSE IF IsExc(Item(v_down, searchsorted(t, Seconds[i], "left")))
         THEN [d |-> _integral_variables,
               out |-> Item(v_down, searchsorted(t, Seconds[i], "left"))]
    ELSE IntegrationLoop(Store(_integral_variables, IntegralKeys[i],
                               Item(v_down, searchsorted(t, Seconds[i], "left"))),
                         t, v_down, i + 1)

\* the loop without its first pair
_integration_variables_from_second(_integral_variables, t, v_down) ==
    IntegrationLoop(_integral_variables, t, v_down, 2)

_integration_variables(_integral_variables, t, v_down) ==
    IntegrationLoop(_integral_variables, t, v_down, 1)

\* a[:index]
UpTo_exclusive(a, index) == Array(SubSeq(a, 1, IF index < Len(a) THEN index ELSE Len(a)))

\* a[:index + 1]
UpTo(a, index) == Array(SubSeq(a, 1, IF index + 1 < Len(a) THEN index + 1 ELSE Len(a)))

\* the end of run_time_domain: the integral variables and the four slices
TimeDomainResult(mc, grid, model, z_complex, pulse, stored) ==
    [mc |-> mc, freq_even |-> grid, z_model |-> model, z_complex |-> z_complex,
     v_down |-> pulse.volt_down, v_up |-> pulse.volt_up, t |-> pulse.t,
     _integral_variables |-> stored.d,
     out |-> IF IsExc(stored.out) THEN stored.out
             ELSE [k |-> "tuple",
                   freq |-> UpTo(grid.v, searchsorted(pulse.t, Np(T \div 2), "left")),
                   time |-> UpTo(pulse.t, searchsorted(pulse.t, Np(T \div 2), "left")),
                   volt_down |-> UpTo(pulse.volt_down.v, searchsorted(pulse.t, Np(T \div 2), "left")),
                   volt_up |-> UpTo(pulse.volt_up, searchsorted(pulse.t, Np(T \div 2), "left"))]]

\* run_time_domain from _fourier_transform_pulse on
TimeDomainPulse(_integral_variables, mc, grid, model, z_complex, pulse) ==
    IF IsExc(pulse.volt_down)
    THEN [mc |-> mc, freq_even |-> grid, z_model |-> model, z_complex |-> z_complex,
          v_down |-> pulse.volt_down, v_up |-> pulse.volt_up, t |-> pulse.t,
          _integral_variables |-> _integral_variables, out |-> pulse.volt_down]
    ELSE TimeDomainResult(mc, grid, model, z_complex, pulse,
                          _integration_variables(_integral_variables, pulse.t,
                                                 pulse.volt_down.v))

\* run_time_domain after run_rock, whose outcome is rock
TimeDomainOfRock(_integral_variables, grid, rock, samples) ==
    IF rock.out.k # "array"
    THEN [mc |-> rock.mc, freq_even |-> grid, z_model |-> rock.out, z_complex |-> rock.out,
          v_down |-> rock.out, v_up |-> <<>>, t |-> <<>>,
          _integral_variables |-> _integral_variables, out |-> rock.out]
    ELSE TimeDomainPulse(_integral_variables, rock.mc, grid, rock.out,
                         WithRealFirst(rock.out),
                         _fourier_transform_pulse(
                             FilteredInverse(WithRealFirst(rock.out), samples),
                             Num(T, 0, N, FALSE)))

\* TimeDomainBuilder.run_time_domain(params, model_circuit); samples is the
\* sequence the filtered inverse FFT yields if the spectrum is finite
run_time_domain(_integral_variables, mc, params, samples) ==
    TimeDomainOfRock(_integral_variables, freq_even,
                     run_rock(mc, params, freq_even, FALSE), samples)

-----------------------------------------------------------------------------
(* Calculator.run_model_manual.  Its outcome is the record [mc, calculator, *)
(* emitted, out]: the circuit model object and the calculator's fields     *)
(* after the call, the results the signal model_manual_result emitted, in  *)
(* order, and the result returned or the exception raised.                 *)

\* z.imag as a complex number
Imag(z) == IF z.den = 0 THEN z ELSE Num(z.im, 0, z.den, z.np)

\* a.real and a.imag of an array
RealOf(a) == [a EXCEPT !.v = [i \in 1..Len(a.v) |-> Real(a.v[i])]]
ImagOf(a) == [a EXCEPT !.v = [i \in 1..Len(a.v) |-> Imag(a.v[i])]]

\* x + 1j * y
AddJ(x, y) == Add(x, Mul(Num(0, 1, 1, FALSE), y))

\* the pairs of elements that an arithmetic operation on two one-dimensional
\* arrays combines, with numpy's broadcasting of a single element
Paired(a, b) ==
    IF Len(a.v) = Len(b.v) THEN Array([i \in 1..Len(a.v) |-> <<a.v[i], b.v[i]>>])
    ELSE IF Len(a.v) = 1 THEN Array([i \in 1..Len(b.v) |-> <<a.v[1], b.v[i]>>])
    ELSE IF Len(b.v) = 1 THEN Array([i \in 1..Len(a.v) |-> <<a.v[i], b.v[1]>>])
    ELSE Exc("ValueError", "operands could not be broadcast together")

\* real + 1j * imag of two arrays
ComplexOf(pairs) ==
    IF IsExc(pairs) THEN pairs
    ELSE Array([i \in 1..Len(pairs.v) |-> AddJ(pairs.v[i][1], pairs.v[i][2])])

\* a - b of two arrays
Difference(pairs) ==
    IF IsExc(pairs) THEN pairs
    ELSE Array([i \in 1..Len(pairs.v) |-> Sub(pairs.v[i][1], pairs.v[i][2])])

\* np.abs(z) ** 2
AbsSquared(z) ==
    IF z.den = 0 THEN z ELSE Num(z.re * z.re + z.im * z.im, 0, z.den * z.den, TRUE)

\* float(abs(x)) of a real number
FloatAbs(x) == IF x.den = 0 THEN x ELSE Num(Abs(x.re), 0, x.den, FALSE)

\* np.concatenate((a, b))
concatenate(a, b) == Array(a.v \o b.v)

\* the fixed special frequency 0.1 Hz, a plain Python float: one unit of
\* frequency here
TenthHz == Py(1)

\* np.array([0.1]) and the list [0.1]
fixed_special_frequencies == Array(<<AsNumpy(TenthHz)>>)
TenthHzList == [k |-> "list", v |-> <<TenthHz>>]

\* params.copy() with the electrode taken out: Re = 1E8 and Qe = 1E2 in the
\* code, here 4 and 2, which keeps the products of the circuit formulas
\* within TLC's integers
params_no_electrode(params) == Store(Store(params, "Re", Py(4)), "Qe", Py(2))

\* Calculator._get_special_freqs
_get_special_freqs(slider_values) ==
    NpArray(<<Get(slider_values, "Fh"), Get(slider_values, "Fm"), Get(slider_values, "Fl")>>)

\* _calculate_special_frequencies after its two calls of run_model, whose
\* outcomes are fsf and dsf
SpecialOf(_calculator_variables, dynamic_special_freq, fsf, dsf) ==
    IF fsf.out.k # "pair"
    THEN [mc |-> fsf.mc, _calculator_variables |-> _calculator_variables, out |-> fsf.out]
    ELSE IF dsf.out.k # "pair"
    THEN [mc |-> dsf.mc, _calculator_variables |-> _calculator_variables, out |-> dsf.out]
    ELSE [mc |-> dsf.mc,
          _calculator_variables |->
              Store(_calculator_variables, "R01",
                    [Real(fsf.out.z.v[1]) EXCEPT !.np = FALSE]),
          out |-> [k |-> "tuple",
                   special_freq |-> concatenate(dynamic_special_freq,
                                                fixed_special_frequencies),
                   spec_zr |-> concatenate(RealOf(dsf.out.z), RealOf(fsf.out.z)),
                   spec_zi |-> concatenate(ImagOf(dsf.out.z),
                                           Array(<<Np(0)>>))]]

_calculate_special_frequencies(mc, _calculator_variables, params) ==
    IF IsExc(_get_special_freqs(params))
    THEN [mc |-> mc, _calculator_variables |-> _calculator_variables,
          out |-> _get_special_freqs(params)]
    ELSE SpecialOf(_calculator_variables, _get_special_freqs(params),
                   run_model(mc, params_no_electrode(params),
                             fixed_special_frequencies, TRUE),
                   run_model(run_model(mc, params_no_electrode(params),
                                       fixed_special_frequencies, TRUE).mc,
                             params, _get_special_freqs(params), TRUE))

\* np.sum(np.abs(exp_complex - calc_complex) ** 2)
Mismatch(difference) ==
    IF IsExc(difference) THEN difference
    ELSE cumsum([i \in 1..Len(difference.v) |-> AbsSquared(difference.v[i])],
                Len(difference.v))

\* the end of _update_fit_variables: Fhigh and Flow
UpdateFrequencies(mc, _fit_variables, freq_array) ==
    IF Len(freq_array.v) = 0
    THEN [mc |-> mc, _fit_variables |-> _fit_variables,
          out |-> Exc("IndexError", "index 0 is out of bounds")]
    ELSE [mc |-> mc,
          _fit_variables |->
              Store(Store(_fit_variables, "Fhigh", freq_array.v[1]),
                    "Flow", freq_array.v[Len(freq_array.v)]),
          out |-> [k |-> "ok"]]


\* _update_fit_variables after the mismatch is stored: z_1Hz is the outcome
\* of run_model(params, [0.1])
UpdateResistance(_fit_variables, freq_array, z_1Hz) ==
    IF z_1Hz.out.k # "pair"
    THEN [mc |-> z_1Hz.mc, _fit_variables |-> _fit_variables, out |-> z_1Hz.out]
    ELSE UpdateFrequencies(z_1Hz.mc,
                           Store(_fit_variables, "Res.1Hz",
                                 FloatAbs(Real(z_1Hz.out.z.v[1]))),
                           freq_array)

\* Calculator._update_fit_variables
UpdateMismatch(mc, _fit_variables, freq_array, params, mismatch) ==
    IF IsExc(mismatch)
    THEN [mc |-> mc, _fit_variables |-> _fit_variables, out |-> mismatch]
    ELSE UpdateResistance(Store(_fit_variables, "mismatch", mismatch), freq_array,
                          run_model(mc, params, TenthHzList, FALSE))

\* exp_complex - calc_complex
ExpMinusCalc(exp_complex, calc_complex) ==
    IF IsExc(exp_complex) THEN exp_complex
    ELSE IF IsExc(calc_complex) THEN calc_complex
    ELSE Difference(Paired(exp_complex, calc_complex))

_update_fit_variables(mc, _fit_variables, _experiment_data, z_real, z_imag, params) ==
    UpdateMismatch(mc, _fit_variables, _experiment_data.freq, params,
                   Mismatch(ExpMinusCalc(ComplexOf(Paired(_experiment_data.Z_real,
                                                          _experiment_data.Z_imag)),
                                         ComplexOf(Paired(z_real, z_imag)))))

\* Calculator.get_model_parameters:
\* fit_variables | model_variables | integral_variables | calc_variables,
\* a key of a right operand replacing the same key of the left one
get_model_parameters(mc, calc) ==
    Merge(Merge(Merge(calc._fit_variables,
                      Merge(Merge(mc.q, mc.par_second), mc.par_other_sec)),
                calc._integral_variables),
          calc._calculator_variables)

\* the dataclass CalculationResult: twelve fields, None unless given
None == [k |-> "None"]

ResultFields ==
    {"main_freq", "main_z_real", "main_z_imag", "rock_z_real", "rock_z_imag",
     "special_freq", "special_z_real", "special_z_imag", "timedomain_freq",
     "timedomain_time", "timedomain_volt_down", "timedomain_volt_up"}

CalculationResult(given) ==
    [k |-> "CalculationResult",
     fields |-> [field \in ResultFields |->
                    IF field \in DOMAIN given THEN given[field] ELSE None]]

\* the result run_model_manual builds
ManualResult(freq_array, z, rock_z, special, time) ==
    CalculationResult(
        [main_freq |-> freq_array,
         main_z_real |-> RealOf(z), main_z_imag |-> ImagOf(z),
         rock_z_real |-> RealOf(rock_z), rock_z_imag |-> ImagOf(rock_z),
         special_freq |-> special.special_freq,
         special_z_real |-> special.spec_zr, special_z_imag |-> special.spec_zi,
         timedomain_freq |-> time.freq, timedomain_time |-> time.time,
         timedomain_volt_down |-> time.volt_down, timedomain_volt_up |-> time.volt_up])

\* what a call leaves that raised exc before the emission
RaisedBefore(mc, calc, exc) ==
    [mc |-> mc, calculator |-> calc, emitted |-> <<>>, out |-> exc]

\* model_manual_result.emit(result), _update_fit_variables and return result
EmitUpdateReturn(calc, result, update) ==
    [mc |-> update.mc,
     calculator |-> [calc EXCEPT !._fit_variables = update._fit_variables],
     emitted |-> <<result>>,
     out |-> IF IsExc(update.out) THEN update.out ELSE result]


\* run_model_manual after run_time_domain, whose outcome is time
ManualAfterTime(calc, params, z, rock_z, special, time) ==
    IF time.out.k # "tuple"
    THEN RaisedBefore(time.mc, [calc EXCEPT !._integral_variables = time._integral_variables],
                      time.out)
    ELSE EmitUpdateReturn([calc EXCEPT !._integral_variables = time._integral_variables],
                          ManualResult(calc._experiment_data.freq, z, rock_z,
                                       special.out, time.out),
                          _update_fit_variables(time.mc, calc._fit_variables,
                                                calc._experiment_data,
                                                RealOf(z), ImagOf(z), params))

\* run_model_manual after _calculate_special_frequencies
ManualAfterSpecial(calc, params, samples, z, rock_z, special) ==
    IF special.out.k # "tuple" THEN RaisedBefore(special.mc, calc, special.out)
    ELSE ManualAfterTime([calc EXCEPT !._calculator_variables =
                                          special._calculator_variables],
                         params, z, rock_z, special,
                         run_time_domain(calc._integral_variables, special.mc,
                                         params, samples))

\* run_model_manual after estimate_rock
ManualAfterRock(calc, params, samples, z, rock) ==
    IF rock.out.k # "array" THEN RaisedBefore(rock.mc, calc, rock.out)
    ELSE ManualAfterSpecial(calc, params, samples, z, rock.out,
                            _calculate_special_frequencies(
                                rock.mc, calc._calculator_variables, params))

\* run_model_manual after run_model over the experiment's frequencies
ManualAfterModel(calc, params, samples, z_experimental, model) ==
    IF model.out.k # "pair" THEN RaisedBefore(model.mc, calc, model.out)
    ELSE ManualAfterRock(calc, params, samples, model.out.z,
                         estimate_rock(model.mc, params, calc._experiment_data.freq,
                                       z_experimental))

\* Calculator.run_model_manual(params); samples is the sequence the filtered
\* inverse FFT yields if the spectrum of the rock is finite
Calculator_manual(mc, calc, params, samples) ==
    IF IsExc(Paired(calc._experiment_data.Z_real, calc._experiment_data.Z_imag))
    THEN RaisedBefore(mc, calc,
                      Paired(calc._experiment_data.Z_real, calc._experiment_data.Z_imag))
    ELSE ManualAfterModel(calc, params, samples,
                          ComplexOf(Paired(calc._experiment_data.Z_real,
                                           calc._experiment_data.Z_imag)),
                          run_model(mc, params, calc._experiment_data.freq, FALSE))

\* one call of a method of the circuit model, as its caller writes it;
\* estimate_rock has no parameter old_par_second, and run_model and run_rock
\* take no impedance
CircuitCall(op, parameters, freq_array, old_par_second, impedance) ==
    [op |-> op, parameters |-> parameters, freq_array |-> freq_array,
     old_par_second |-> old_par_second, impedance |-> impedance]

\* the calls with the first of them reading the cache as it finds it
ManualCalls_cached_first(calc, params, z_experimental) ==
    << CircuitCall("run_model", params, calc._experiment_data.freq, TRUE, None),
       CircuitCall("estimate_rock", params, calc._experiment_data.freq, None,
                   z_experimental),
       CircuitCall("run_model", params_no_electrode(params),
                   fixed_special_frequencies, TRUE, None),
       CircuitCall("run_model", params, _get_special_freqs(params), TRUE, None),
       CircuitCall("run_rock", params, freq_even, FALSE, None) >>

\* The calls of the circuit model that run_model_manual writes before it
\* emits its result, in the order of the code: run_model, estimate_rock, the
\* two run_model of _calculate_special_frequencies (the fixed frequency
\* first) and the run_rock of run_time_domain.
ManualCalls(calc, params, z_experimental) ==
    << CircuitCall("run_model", params, calc._experiment_data.freq, FALSE, None),
       CircuitCall("estimate_rock", params, calc._experiment_data.freq, None,
                   z_experimental),
       CircuitCall("run_model", params_no_electrode(params),
                   fixed_special_frequencies, TRUE, None),
       CircuitCall("run_model", params, _get_special_freqs(params), TRUE, None),
       CircuitCall("run_rock", params, freq_even, FALSE, None) >>

\* the call made on the object mc
MadeCall(mc, call) ==
    IF call.op = "run_model"
    THEN run_model(mc, call.parameters, call.freq_array, call.old_par_second)
    ELSE IF call.op = "run_rock"
    THEN run_rock(mc, call.parameters, call.freq_array, call.old_par_second)
    ELSE estimate_rock(mc, call.parameters, call.freq_array, call.impedance)

\* what is recorded of a call: the object it was made on and its outcome
Evaluation(mc, call, made) == [call |-> call, mc |-> mc, after |-> made.mc, out |-> made.out]

\* the calls from the i-th on, made one after the other until one raises,
\* which ends run_model_manual
RECURSIVE EvaluationsFrom(_, _, _)
EvaluationsFrom(mc, calls, i) ==
    IF i > Len(calls) THEN <<>>
    ELSE CHOOSE rest \in
             {<<Evaluation(mc, calls[i], made)>>
              \o (IF IsExc(made.out) THEN <<>> ELSE EvaluationsFrom(made.mc, calls, i + 1)) :
                 made \in {MadeCall(mc, calls[i])}} : TRUE

\* the calls of the circuit model made in one run_model_manual, up to the
\* emission of the result or the exception that ends the call
ManualEvaluations(mc, calc, params) ==
    IF IsExc(Paired(calc._experiment_data.Z_real, calc._experiment_data.Z_imag))
       \/ IsExc(_get_special_freqs(params))
    THEN <<>>
    ELSE EvaluationsFrom(mc, ManualCalls(calc, params,
                                         ComplexOf(Paired(calc._experiment_data.Z_real,
                                                          calc._experiment_data.Z_imag))),
                         1)

-----------------------------------------------------------------------------
(* Bounds and input sets *)

\* longest frequency array
MaxLen == 2

\* largest frequency, in units of 1/(2*pi) Hz
MaxFreq == 2

\* largest magnitude of an operand handed to a primitive on its own
MaxOperand == 2

FreqValues == (-1)..MaxFreq

\* a parameter set whose values are plain Python floats, except the keys in
\* npKeys, whose values are np.float64
ToPar(ints, npKeys) == [key \in DOMAIN ints |-> Num(ints[key], 0, 1, key \in npKeys)]

BaseValues ==
    [key \in Keys |->
        IF key \in {"Rh", "Rm", "Rl", "Fh", "Ph", "Pm", "Pl"} THEN 2
        ELSE 1]

\* the values a single key takes besides its base value
Variants ==
    {<<"Rinf", 2>>, <<"Rh", 0>>, <<"Rm", 0>>, <<"Rl", 0>>, <<"Linf", 0>>, <<"Re", 0>>,
     <<"Fh", 0>>, <<"Fl", -1>>, <<"Qe", 0>>}

ParameterValues ==
    {BaseValues} \cup {[BaseValues EXCEPT ![kv[1]] = kv[2]] : kv \in Variants}

\* what a caller hands to the circuit model: slider values (plain floats)
ModelParams == {ToPar(ints, {}) : ints \in ParameterValues}

\* a sweep of n frequencies downwards from start
Sweep(start, n) == [i \in 1..n |-> Np(start + 1 - i)]

\* np.ndarray frequency arrays, and the one-element Python lists that
\* Calculator._update_fit_variables passes
FreqArrays ==
    {Array(Sweep(start, n)) : start \in FreqValues, n \in 0..MaxLen}
    \cup {[k |-> "list", v |-> <<Py(f)>>] : f \in 1..MaxFreq}

\* experimental impedance arrays for n frequencies: one-dimensional of the
\* same length, one-dimensional and longer, and of shape (n, 1)
Measured(shape, n) ==
    [k |-> "array", shape |-> shape, v |-> [i \in 1..n |-> Num(i, 1, 1, TRUE)]]

Impedances(n) == {Measured(<<n>>, n), Measured(<<n + 1>>, n + 1), Measured(<<n, 1>>, n)}

ComplexOperands ==
    {Num(a, b, 1, np) : a \in (-1)..1, b \in (-1)..1, np \in BOOLEAN}

\* 49.0, 98.0, 24.5, 3.0, 0.5 and -49.0 bit for bit
DoubleOperands ==
    {Double(1, <<0, 0, 6272>>, -47, FALSE), Double(1, <<0, 0, 6272>>, -46, FALSE),
     Double(1, <<0, 0, 6272>>, -48, FALSE), Double(1, <<0, 0, 6144>>, -51, FALSE),
     Double(1, <<0, 0, 4096>>, -53, FALSE), Double(-1, <<0, 0, 6272>>, -47, FALSE)}

\* the pairs of impedances _parallel is called with
ParallelOperands ==
    (ComplexOperands \X ComplexOperands) \cup (DoubleOperands \X DoubleOperands)

RealOperands == {Num(a, 0, 1, np) : a \in (-1)..MaxOperand, np \in BOOLEAN}

\* most evaluations of the objective that least_squares makes in one fit
MaxTrials == 2

\* the slider configuration that Main reads from config.ini: the class and
\* the range of every slider
slider_configurations ==
    [key \in Keys |->
        IF key = "Pei" THEN [type |-> "DoubleSliderWithTicks", min |-> -2, max |-> 3]
        ELSE IF StartsWithP(key) THEN [type |-> "DoubleSliderWithTicks", min |-> 0, max |-> 1]
        ELSE [type |-> "EPowerSliderWithTicks", min |-> 0, max |-> 1]]

\* WidgetSliders.get_all_values() at startup: every slider at the default
\* position 0, which an EPowerSliderWithTicks reads as 10 ** 0
InitialSliders == [key \in Keys |-> Py(IF StartsWithP(key) THEN 0 ELSE 1)]

\* the positions the user moves a slider to
SliderMoves == {<<"Pei", Py(3)>>, <<"Pei", Py(-2)>>}

\* the sliders whose disable button the user presses
ToggledKeys == {"Pei", "Linf"}

\* the same where the sign of Rinf is at issue
ToggledResistances == {"Rinf", "Rh"}

\* experiment data: the frequencies and the number of points of Z_real and Z_imag
ExperimentData == {[freq |-> Array(Sweep(1, n)), points |-> n] : n \in 1..MaxLen}

\* the free parameters that least_squares varies, and its steps in scaled units
VariedKeys == {"Pei", "Ph"}

Steps(key) == IF StartsWithP(key) THEN {-10, 10} ELSE {-1, 1}

\* The points at which least_squares (scipy, outside the repository) may
\* evaluate the objective after x0: x0 with one coordinate moved by a step
\* within the bounds, ends of the bounds included; a step of Pei that ends
\* at -10.0 may also end at the double next below it.
TrialPoints(free_keys, x0, lower, upper) ==
    LET varied == Range(free_keys) \cap VariedKeys
        Moved(key, d) == [x0 EXCEPT ![key] = Add(@, Np(d))]
        InBounds(key, x) == Leq(lower[key], x[key]) /\ Leq(x[key], upper[key])
        grid == UNION {{Moved(key, d) : d \in {c \in Steps(key) : InBounds(key, Moved(key, c))}} :
                          key \in varied}
        last_place ==
            IF "Pei" \in Range(free_keys)
               /\ \E d \in Steps("Pei") : Add(x0["Pei"], Np(d)) = Np(-10)
            THEN {[x0 EXCEPT !["Pei"] = Below(Np(-10))]}
            ELSE {}
    IN grid \cup last_place

-----------------------------------------------------------------------------
VARIABLES
    model_circuit,   \* Calculator._model_circuit, the circuit model object
    ret,             \* the last call of a circuit-model method and its outcome
    prim,            \* the last call of a primitive and its outcome
    heap,            \* the parameter dictionaries, by identity
    v_sliders,       \* Main.v_sliders: the identity of the dictionary it refers to
    fit_builder,     \* the fields of the FitBuilder object
    fit,             \* the call of fit_model in progress, if any
    done,            \* the last call of fit_model or recover_previous_fit and its outcome
    supplied,        \* the initial_params of the latest call of fit_model, as they were then
    calculator       \* the fields of the Calculator object and of its TimeDomainBuilder
                     \* that a manual evaluation reads and writes, where they are
                     \* followed (SpecTime and SpecManual); NotFollowed elsewhere

fitVars == <<heap, v_sliders, fit_builder, fit, done, supplied, calculator>>

vars == <<model_circuit, ret, prim, heap, v_sliders, fit_builder, fit, done, supplied, calculator>>

\* no call is in progress: the caller has taken the last outcome
NoCall == [op |-> "none"]

InitCircuit == model_circuit = ModelCircuitParallel(FALSE, EmptyDict, EmptyDict, EmptyDict)

\* the identities of the dictionaries; 0 is the {} that FitBuilder.__init__
\* stores in _previous_fit_params
Cells == {1, 2}

Idle == [pc |-> "idle"]

\* FitBuilder.__init__ followed by the set_bounds of Main's startup; the
\* experiment data of Calculator.__init__ shortened to one frequency
InitFitBuilder ==
    fit_builder =
        [lower_bounds |-> set_bounds(EmptyDict, EmptyDict, slider_configurations)[1],
         upper_bounds |-> set_bounds(EmptyDict, EmptyDict, slider_configurations)[2],
         disabled_variables |-> {},
         gaussian_prior |-> FALSE,
         _previous_fit_params |-> 0,
         _experiment_data |-> [freq |-> Array(Sweep(1, 1)), points |-> 1]]

\* Calculator.__init__, its experiment data shortened to two frequencies
\* (they are in ascending order), and TimeDomainBuilder.__init__
InitCalculator ==
    calculator =
        [_experiment_data |-> [freq |-> Array(<<Np(1), Np(2)>>),
                               Z_real |-> Array(<<Np(0), Np(0)>>),
                               Z_imag |-> Array(<<Np(0), Np(0)>>)],
         _fit_variables |-> [key \in {"model"} |-> model_circuit.name],
         _calculator_variables |-> EmptyDict,
         _integral_variables |-> EmptyDict]

\* the value of calculator in the specifications that do not follow the
\* fields it stands for
NotFollowed == [followed |-> FALSE]

InitOthers ==
    /\ InitCircuit
    /\ ret = NoCall
    /\ prim = NoCall
    /\ heap = [id \in Cells |-> IF id = 1 THEN InitialSliders ELSE EmptyDict]
    /\ v_sliders = 1
    /\ InitFitBuilder
    /\ fit = Idle
    /\ done = NoCall
    /\ supplied = [set |-> FALSE, params |-> EmptyDict]

Init == InitOthers /\ calculator = NotFollowed

\* the same with the fields of the Calculator object followed
InitManual == InitOthers /\ InitCalculator

-----------------------------------------------------------------------------
(* The primitives on their own *)

CallCpe ==
    /\ prim = NoCall
    /\ UNCHANGED fitVars
    /\ \E freq \in RealOperands, q \in RealOperands, pf \in RealOperands, pi \in RealOperands :
        /\ ~pf.np /\ ~pi.np
        /\ prim' = [op |-> "_cpe", args |-> <<freq, q, pf, pi>>,
                    out |-> _cpe(freq, q, pf, pi)]
        /\ UNCHANGED <<model_circuit, ret>>

CallParallel ==
    /\ prim = NoCall
    /\ UNCHANGED fitVars
    /\ \E z \in ParallelOperands :
        /\ prim' = [op |-> "_parallel", args |-> z, out |-> _parallel(z[1], z[2])]
        /\ UNCHANGED <<model_circuit, ret>>

CallParallelArrays ==
    /\ prim = NoCall
    /\ UNCHANGED fitVars
    /\ \E n \in 0..MaxLen :
      \E v1 \in [1..n -> {z \in ComplexOperands : z.np /\ z.im <= 0}],
         v2 \in [1..n -> {z \in ComplexOperands : z.np /\ z.im = 0}] :
        /\ prim' = [op |-> "_parallel_arrays", args |-> <<Array(v1), Array(v2)>>,
                    out |-> _parallel_arrays(Array(v1), Array(v2))]
        /\ UNCHANGED <<model_circuit, ret>>

CallInductor ==
    /\ prim = NoCall /\ ret = NoCall
    /\ UNCHANGED fitVars
    /\ \E freq \in RealOperands, linf \in RealOperands :
        /\ prim' = [op |-> "_inductor", args |-> <<freq, linf>>, out |-> _inductor(freq, linf)]
        /\ UNCHANGED <<model_circuit, ret>>

CallQFromF0 ==
    /\ prim = NoCall /\ ret = NoCall
    /\ UNCHANGED fitVars
    /\ \E r \in RealOperands, f0 \in RealOperands, p \in RealOperands :
        /\ ~p.np
        /\ prim' = [op |-> "_q_from_f0", args |-> <<r, f0, p>>, out |-> _q_from_f0(r, f0, p)]
        /\ UNCHANGED <<model_circuit, ret>>

\* the caller of a primitive takes its outcome
ReturnPrim ==
    /\ prim # NoCall
    /\ UNCHANGED fitVars
    /\ prim' = NoCall
    /\ UNCHANGED <<model_circuit, ret>>

NextPrim ==
    CallCpe \/ CallParallel \/ CallParallelArrays \/ CallInductor \/ CallQFromF0 \/ ReturnPrim

SpecPrim == Init /\ [][NextPrim]_vars

-----------------------------------------------------------------------------
(* The circuit model object and its callers *)

Call(op, parameters, freq_array, old_par_second, impedance, r) ==
    [op |-> op, parameters |-> parameters, freq_array |-> freq_array,
     old_par_second |-> old_par_second, impedance |-> impedance,
     name |-> model_circuit.name, negative_rinf |-> model_circuit.negative_rinf,
     after |-> parameters_after(model_circuit, op, parameters),
     out |-> r.out, uses |-> r.uses]

RunModel ==
    /\ ret = NoCall /\ prim = NoCall
    /\ UNCHANGED fitVars
    /\ \E parameters \in ModelParams, freq_array \in FreqArrays, old_par_second \in BOOLEAN :
        LET r == run_model(model_circuit, parameters, freq_array, old_par_second)
        IN /\ model_circuit' = r.mc
           /\ ret' = Call("run_model", parameters, freq_array, old_par_second, Array(<<>>), r)
           /\ UNCHANGED prim

RunRock ==
    /\ ret = NoCall /\ prim = NoCall
    /\ UNCHANGED fitVars
    /\ \E parameters \in ModelParams, freq_array \in FreqArrays, old_par_second \in BOOLEAN :
        LET r == run_rock(model_circuit, parameters, freq_array, old_par_second)
        IN /\ model_circuit' = r.mc
           /\ ret' = Call("run_rock", parameters, freq_array, old_par_second, Array(<<>>), r)
           /\ UNCHANGED prim

EstimateRock ==
    /\ ret = NoCall /\ prim = NoCall
    /\ UNCHANGED fitVars
    /\ \E parameters \in ModelParams, freq_array \in FreqArrays :
      \E impedance \in Impedances(Len(freq_array.v)) :
        LET r == estimate_rock(model_circuit, parameters, freq_array, impedance)
        IN /\ model_circuit' = r.mc
           /\ ret' = Call("estimate_rock", parameters, freq_array, FALSE, impedance, r)
           /\ UNCHANGED prim

\* Calculator.set_rinf_negative
set_rinf_negative ==
    /\ ret = NoCall /\ prim = NoCall
    /\ UNCHANGED fitVars
    /\ \E state \in BOOLEAN :
        /\ model_circuit' = [model_circuit EXCEPT !.negative_rinf = state]
        /\ UNCHANGED ret
        /\ UNCHANGED prim

\* the object that Calculator.switch_circuit_model constructs from the
\* init_parameters() of the one it replaces
Switched(mc, state) ==
    IF state
    THEN ModelCircuitSeries(mc.negative_rinf, mc.q, mc.par_second, mc.par_other_sec)
    ELSE ModelCircuitParallel(mc.negative_rinf, mc.q, mc.par_second, mc.par_other_sec)

\* Calculator.switch_circuit_model
switch_circuit_model ==
    /\ ret = NoCall /\ prim = NoCall
    /\ UNCHANGED fitVars
    /\ \E state \in BOOLEAN :
        /\ model_circuit' = Switched(model_circuit, state)
        /\ UNCHANGED ret
        /\ UNCHANGED prim

\* the caller of a circuit-model method takes its outcome
ReturnModel ==
    /\ ret # NoCall
    /\ UNCHANGED fitVars
    /\ ret' = NoCall
    /\ UNCHANGED <<model_circuit, prim>>

NextModel ==
    \/ RunModel \/ RunRock \/ EstimateRock \/ ReturnModel
    \/ set_rinf_negative \/ switch_circuit_model
    \/ CallInductor \/ CallQFromF0 \/ ReturnPrim

SpecModel == Init /\ [][NextModel]_vars

-----------------------------------------------------------------------------
(* The time-domain response, called through Calculator *)

\* What a caller hands to run_time_domain and run_model_manual.  In the
\* series topology: every value 1, which gives the arcs impedances with an
\* imaginary part, and the same with one value changed.  In the parallel
\* topology, whose nested parallel combinations of such impedances exceed
\* TLC's integers: the parameter sets of the circuit model, whose exponents
\* of 2 and 0 give real impedances.
TimeParams(name) ==
    IF name = "Series Circuit"
    THEN {ToPar([key \in Keys |-> 1], {})}
         \cup {ToPar([[key \in Keys |-> 1] EXCEPT ![kv[1]] = kv[2]], {}) : kv \in Variants}
    ELSE ModelParams

TimeDomainCall(params, samples, r) ==
    [op |-> "run_time_domain", parameters |-> params, samples |-> samples,
     before |-> calculator._integral_variables,
     freq_even |-> r.freq_even, z_model |-> r.z_model, z_complex |-> r.z_complex,
     t |-> r.t, v_down |-> r.v_down, v_up |-> r.v_up, out |-> r.out]

\* Calculator.run_time_domain, which is TimeDomainBuilder.run_time_domain on
\* the calculator's circuit model
Calculator_run_time_domain ==
    /\ ret = NoCall /\ prim = NoCall
    /\ \E params \in TimeParams(model_circuit.name), samples \in Waveforms(2 * (N \div 2)) :
       \E r \in {run_time_domain(calculator._integral_variables, model_circuit,
                                 params, samples)} :
        /\ model_circuit' = r.mc
        /\ calculator' = [calculator EXCEPT !._integral_variables = r._integral_variables]
        /\ ret' = TimeDomainCall(params, samples, r)
    /\ UNCHANGED <<prim, heap, v_sliders, fit_builder, fit, done, supplied>>

NextTime ==
    \/ Calculator_run_time_domain \/ ReturnModel
    \/ set_rinf_negative \/ switch_circuit_model

SpecTime == InitManual /\ [][NextTime]_vars

-----------------------------------------------------------------------------
(* The manual evaluation, called through Calculator *)

\* the experimental data of a file, or of a slice of it: one measured
\* impedance for each frequency
Spectrum(freqs) ==
    [freq |-> Array([i \in 1..Len(freqs) |-> Np(freqs[i])]),
     Z_real |-> Array([i \in 1..Len(freqs) |-> Np(i)]),
     Z_imag |-> Array([i \in 1..Len(freqs) |-> Np(-1)])]

\* spectra with the frequencies in ascending order, in descending order and
\* in no order, and one with no frequency
Spectra ==
    {Spectrum(<<1, 2>>), Spectrum(<<2, 1>>), Spectrum(<<1, 2, 1>>), Spectrum(<<>>)}

\* What a caller hands to run_model_manual, for each topology: the base
\* values, the same with Rm = 0, which the circuit model rejects, and the
\* same with Pei = 2 (the value Main's toggle of Pei sets) and Pef = 0
ManualBase(name) == IF name = "Series Circuit" THEN [key \in Keys |-> 1] ELSE BaseValues

ManualParams(name) ==
    {ToPar(ManualBase(name), {}),
     ToPar([ManualBase(name) EXCEPT !["Rm"] = 0], {}),
     ToPar([ManualBase(name) EXCEPT !["Pei"] = 2, !["Pef"] = 0], {})}

\* the sequences that stand for the filtered inverse FFT in a manual evaluation
ManualWaveforms == {samples \in Waveforms(2 * (N \div 2)) : samples[2] = Np(0)}

\* Calculator.initialize_expdata and FitBuilder.set_expdata
Calculator_initialize_expdata ==
    /\ ret = NoCall /\ prim = NoCall
    /\ \E file_data \in Spectra :
        /\ calculator' = [calculator EXCEPT !._experiment_data = file_data]
        /\ fit_builder' = [fit_builder EXCEPT !._experiment_data =
                              [freq |-> file_data.freq,
                               points |-> Len(file_data.Z_real.v)]]
    /\ UNCHANGED <<model_circuit, ret, prim, heap, v_sliders, fit, done, supplied>>

\* Calculator.run_model_manual
Calculator_run_model_manual ==
    /\ ret = NoCall /\ prim = NoCall
    /\ \E params \in ManualParams(model_circuit.name), samples \in ManualWaveforms :
       \E r \in {Calculator_manual(model_circuit, calculator, params, samples)} :
        /\ model_circuit' = r.mc
        /\ calculator' = r.calculator
        /\ ret' = [op |-> "run_model_manual", parameters |-> params,
                   before |-> calculator, emitted |-> r.emitted, out |-> r.out,
                   evaluations |-> ManualEvaluations(model_circuit, calculator, params)]
    /\ UNCHANGED <<prim, heap, v_sliders, fit_builder, fit, done, supplied>>

NextManual ==
    \/ Calculator_initialize_expdata \/ Calculator_run_model_manual \/ ReturnModel
    \/ switch_circuit_model

SpecManual == InitManual /\ [][NextManual]_vars

-----------------------------------------------------------------------------
(* The fit engine and its callers in Main *)

\* The slots of model_manual_values, run while emit() is executing:
\* WidgetSliders.set_all_variables, whose signal runs Main._reset_v_sliders
\* (the rebinding of v_sliders to the new dictionary) and _update_sliders_data.
\* An exception raised in a slot does not reach the emitter.  previous is the
\* dictionary FitBuilder still refers to; a dictionary nobody refers to is dropped.
Emitted(variables, previous) ==
    LET fresh == CHOOSE id \in Cells : id # previous
        Slots(values) ==
            IF values.raised \/ DOMAIN values.out # DOMAIN heap[v_sliders]
            THEN [heap |-> heap, v_sliders |-> v_sliders, model_circuit |-> model_circuit]
            ELSE [heap |-> [id \in Cells |->
                               IF id = fresh THEN values.out
                               ELSE IF id = previous THEN heap[id]
                               ELSE EmptyDict],
                  v_sliders |-> fresh,
                  model_circuit |-> run_model_manual(model_circuit,
                                                     fit_builder._experiment_data, values.out)]
    IN Slots(set_all_variables(slider_configurations, variables))

Outcome(op, raised, exc, out, before, emitted) ==
    [op |-> op, raised |-> raised, exc |-> exc, out |-> out, before |-> before,
     emitted |-> emitted, disabled_variables |-> fit_builder.disabled_variables]

\* Main._handle_slider_update and, when the timer fires, _update_sliders_data
_update_sliders_data ==
    /\ fit = Idle /\ done = NoCall
    /\ \E move \in SliderMoves :
        /\ heap[v_sliders][move[1]] # move[2]
        /\ heap' = [heap EXCEPT ![v_sliders][move[1]] = move[2]]
        /\ model_circuit' = run_model_manual(model_circuit, fit_builder._experiment_data,
                                             [heap[v_sliders] EXCEPT ![move[1]] = move[2]])
    /\ UNCHANGED <<ret, prim, v_sliders, fit_builder, fit, done, supplied, calculator>>

\* FitBuilder.set_disabled_variables, through Calculator
set_disabled_variables(keys) ==
    /\ fit = Idle /\ done = NoCall
    /\ \E key \in keys, disabled \in BOOLEAN :
        fit_builder' =
            [fit_builder EXCEPT !.disabled_variables =
                IF disabled THEN @ \cup {key} ELSE @ \ {key}]
    /\ UNCHANGED <<model_circuit, ret, prim, heap, v_sliders, fit, done, supplied, calculator>>

\* Calculator.set_gaussian_prior
set_gaussian_prior ==
    /\ fit = Idle /\ done = NoCall
    /\ \E state \in BOOLEAN : fit_builder' = [fit_builder EXCEPT !.gaussian_prior = state]
    /\ UNCHANGED <<model_circuit, ret, prim, heap, v_sliders, fit, done, supplied, calculator>>

\* Calculator.initialize_expdata and FitBuilder.set_expdata
initialize_expdata ==
    /\ fit = Idle /\ done = NoCall
    /\ \E file_data \in ExperimentData :
        fit_builder' = [fit_builder EXCEPT !._experiment_data = file_data]
    /\ UNCHANGED <<model_circuit, ret, prim, heap, v_sliders, fit, done, supplied, calculator>>

\* Main._handle_rinf_negative
_handle_rinf_negative ==
    /\ fit = Idle /\ done = NoCall
    /\ \E state \in BOOLEAN :
        model_circuit' = run_model_manual([model_circuit EXCEPT !.negative_rinf = state],
                                          fit_builder._experiment_data, heap[v_sliders])
    /\ UNCHANGED <<ret, prim, heap, v_sliders, fit_builder, fit, done, supplied, calculator>>

\* fit_model_cole and fit_model_bode, pressed in Main with v_sliders as
\* initial_params: lines 85-91 of fit_model, up to the call of least_squares
fit_model ==
    /\ fit = Idle /\ done = NoCall
    /\ \E residual_func \in {"_residual_cole", "_residual_bode"} :
        LET initial_params == heap[v_sliders]
            all_keys == KeysOf(initial_params)
            free_keys ==
                SelectSeq(all_keys, LAMBDA key : key \notin fit_builder.disabled_variables)
            Started(x0, bounds) ==
                IF x0.raised \/ bounds.raised
                THEN /\ fit' = Idle
                     /\ done' = Outcome("fit_model", TRUE,
                                        IF x0.raised THEN x0.out ELSE bounds.out,
                                        EmptyDict, EmptyDict, EmptyDict)
                ELSE /\ fit' = [pc |-> "least_squares",
                                residual_func |-> residual_func,
                                free_keys |-> free_keys,
                                locked_params |->
                                    locked_params(initial_params,
                                                  fit_builder.disabled_variables),
                                x0 |-> x0.out,
                                lower |-> bounds.out[1],
                                upper |-> bounds.out[2],
                                nfev |-> 0,
                                x_free |-> x0.out,
                                caught |-> [k |-> "ok"],
                                objective |-> [k |-> "none"],
                                objectives |-> <<>>,
                                accepted |-> x0.out]
                     /\ done' = NoCall
        IN /\ fit_builder' = [fit_builder EXCEPT !._previous_fit_params = v_sliders]
           /\ supplied' = [set |-> TRUE, params |-> initial_params]
           /\ heap' = [id \in Cells |-> IF id = v_sliders THEN heap[id] ELSE EmptyDict]
           /\ Started(_scale_params(free_keys, initial_params),
                      _build_bounds(fit_builder.lower_bounds, fit_builder.upper_bounds,
                                    free_keys))
    /\ UNCHANGED <<model_circuit, ret, prim, v_sliders, calculator>>

\* least_squares evaluates the objective: first at x0, then at trial points;
\* objectives holds what _residual_wrapper returned to it so far, in order.
\* An exception that leaves _residual_wrapper leaves least_squares and
\* fit_model.  least_squares may take a point where the objective was a
\* residual vector as its best point so far.
least_squares ==
    /\ fit.pc = "least_squares" /\ fit.nfev < MaxTrials
    /\ \E x_free \in (IF fit.nfev = 0 THEN {fit.x0}
                      ELSE TrialPoints(fit.free_keys, fit.x0, fit.lower, fit.upper)) :
        LET Evaluated(w) ==
                /\ model_circuit' = w.mc
                /\ IF w.raised
                   THEN /\ fit' = Idle
                        /\ done' = Outcome("fit_model", TRUE, w.out,
                                           EmptyDict, EmptyDict, EmptyDict)
                   ELSE /\ \E accept \in {a \in BOOLEAN : a => w.out.k = "residual"} :
                            fit' = [fit EXCEPT !.nfev = @ + 1,
                                               !.x_free = x_free,
                                               !.caught = w.caught,
                                               !.objective = w.out,
                                               !.objectives = Append(@, w.out),
                                               !.accepted = IF accept THEN x_free ELSE @]
                        /\ done' = NoCall
        IN Evaluated(_residual_wrapper(model_circuit, fit_builder._experiment_data,
                                       fit_builder.gaussian_prior, fit.residual_func,
                                       fit.free_keys, fit.locked_params, x_free))
    /\ UNCHANGED <<ret, prim, heap, v_sliders, fit_builder, supplied, calculator>>

\* least_squares returns result.x: lines 117-124 of fit_model
fit_model_returns ==
    /\ fit.pc = "least_squares" /\ fit.nfev > 0
    /\ LET best_fit_free == _descale_params(fit.free_keys, fit.accepted)
           best_fit == Merge(fit.locked_params, best_fit_free)
           Returned(normalized, e) ==
               /\ heap' = e.heap
               /\ v_sliders' = e.v_sliders
               /\ model_circuit' = e.model_circuit
               /\ done' = Outcome("fit_model", FALSE, [k |-> "ok"],
                                  normalized, best_fit, normalized)
       IN Returned(NormalizePei(best_fit),
                   Emitted(NormalizePei(best_fit), fit_builder._previous_fit_params))
    /\ fit' = Idle
    /\ UNCHANGED <<ret, prim, fit_builder, supplied, calculator>>

\* FitBuilder.recover_previous_fit, from Ctrl+Z
recover_previous_fit ==
    /\ fit = Idle /\ done = NoCall
    /\ LET previous == fit_builder._previous_fit_params
           variables == IF previous = 0 THEN EmptyDict ELSE heap[previous]
           Recovered(e) ==
               /\ heap' = e.heap
               /\ v_sliders' = e.v_sliders
               /\ model_circuit' = e.model_circuit
               /\ done' = Outcome("recover_previous_fit", FALSE, [k |-> "ok"],
                                  EmptyDict, EmptyDict, variables)
       IN Recovered(Emitted(variables, previous))
    /\ UNCHANGED <<ret, prim, fit_builder, fit, supplied, calculator>>

\* the event loop takes the next event
ReturnFit ==
    /\ done # NoCall
    /\ done' = NoCall
    /\ UNCHANGED <<model_circuit, ret, prim, heap, v_sliders, fit_builder, fit, supplied, calculator>>

NextFit ==
    \/ _update_sliders_data \/ set_disabled_variables(ToggledKeys) \/ set_gaussian_prior
    \/ initialize_expdata
    \/ fit_model \/ least_squares \/ fit_model_returns \/ recover_previous_fit
    \/ ReturnFit

SpecFit == Init /\ [][NextFit]_vars

\* the fit engine where Rinf may be negative
NextUndo ==
    \/ _update_sliders_data \/ set_disabled_variables(ToggledResistances)
    \/ _handle_rinf_negative
    \/ fit_model \/ least_squares \/ fit_model_returns \/ recover_previous_fit
    \/ ReturnFit

SpecUndo == Init /\ [][NextUndo]_vars

-----------------------------------------------------------------------------
(* The objects that Calculator wires together.  The circuit-model objects   *)
(* are told apart by an identity; calculator._model_circuit,                *)
(* calculator.fit_builder._model_circuit and                                *)
(* calculator.time_domain_builder.model_circuit are the identities of the   *)
(* objects the three attributes refer to, and model_circuit is the object   *)
(* that calculator._model_circuit refers to.                                *)

Instances == {0, 1, 2, 3}

\* Calculator.__init__: one ModelCircuitParallel, handed to both builders,
\* and one dictionary of experiment data, handed to the fit engine
InitWiring ==
    /\ InitCircuit
    /\ ret = NoCall
    /\ prim = NoCall
    /\ heap = [id \in Cells |-> IF id = 1 THEN InitialSliders ELSE EmptyDict]
    /\ v_sliders = 1
    /\ fit = Idle
    /\ done = NoCall
    /\ supplied = [set |-> FALSE, params |-> EmptyDict]
    /\ calculator =
        [_experiment_data |-> [freq |-> Array(<<Np(1), Np(2)>>),
                               Z_real |-> Array(<<Np(0), Np(0)>>),
                               Z_imag |-> Array(<<Np(0), Np(0)>>)],
         _model_circuit |-> 0,
         fit_builder |-> [_model_circuit |-> 0],
         time_domain_builder |-> [model_circuit |-> 0],
         _fit_variables |-> [key \in {"model"} |-> model_circuit.name],
         _calculator_variables |-> EmptyDict,
         _integral_variables |-> EmptyDict]
    /\ fit_builder =
        [lower_bounds |-> set_bounds(EmptyDict, EmptyDict, slider_configurations)[1],
         upper_bounds |-> set_bounds(EmptyDict, EmptyDict, slider_configurations)[2],
         disabled_variables |-> {},
         gaussian_prior |-> FALSE,
         _previous_fit_params |-> 0,
         _experiment_data |-> [freq |-> calculator._experiment_data.freq, points |-> 2]]

\* the identity of a newly constructed object: one that no attribute refers to
NewInstance(calc) ==
    CHOOSE id \in Instances :
        id \notin {calc._model_circuit, calc.fit_builder._model_circuit,
                   calc.time_domain_builder.model_circuit}

\* the three assignments of switch_circuit_model: self._model_circuit, then
\* set_model_circuit of the time-domain builder and of the fit engine
Rewired_calculator_only(calc, new) == [calc EXCEPT !._model_circuit = new]

Rewired(calc, new) ==
    [calc EXCEPT !._model_circuit = new,
                 !.time_domain_builder.model_circuit = new,
                 !.fit_builder._model_circuit = new]

\* Calculator.switch_circuit_model, with the references followed
Calculator_switch_circuit_model ==
    /\ ret = NoCall /\ prim = NoCall
    /\ \E state \in BOOLEAN :
        /\ model_circuit' = Switched(model_circuit, state)
        /\ calculator' = Rewired(calculator, NewInstance(calculator))
        /\ ret' = [op |-> "switch_circuit_model", state |-> state,
                   replaced |-> model_circuit, instance |-> calculator._model_circuit]
    /\ UNCHANGED <<prim, heap, v_sliders, fit_builder, fit, done, supplied>>

\* The evaluation that run_model_manual starts with (Calculator.py line 171):
\* run_model of the Calculator's object on the sliders' values and the
\* frequencies of the experiment data, which derives the cache
Calculator_run_model ==
    /\ ret = NoCall /\ prim = NoCall
    /\ UNCHANGED fitVars
    /\ \E parameters \in ManualParams(model_circuit.name) :
       \E r \in {run_model(model_circuit, parameters, calculator._experiment_data.freq, FALSE)} :
        /\ model_circuit' = r.mc
        /\ ret' = Call("run_model", parameters, calculator._experiment_data.freq, FALSE, Array(<<>>), r)
        /\ UNCHANGED prim

NextWiring ==
    \/ Calculator_initialize_expdata \/ Calculator_switch_circuit_model
    \/ set_rinf_negative \/ set_gaussian_prior
    \/ Calculator_run_model \/ ReturnModel

SpecWiring == InitWiring /\ [][NextWiring]_vars

-----------------------------------------------------------------------------
(* FitBuilder called directly: the static methods and set_bounds on the    *)
(* arguments a caller may hand them, and fit_model on the caller's own      *)
(* dictionary with bounds and a disabled set of the caller's choosing.      *)

\* the dictionary without the key
Without(d, key) == [x \in DOMAIN d \ {key} |-> d[x]]

\* the parameter dictionaries a caller hands to fit_model: magnitudes that
\* are positive, zero or negative, a key outside the vocabulary, a missing key
ApiParams ==
    {[InitialSliders EXCEPT !["Rh"] = Py(r), !["Fh"] = Py(f)] : r \in {-1, 0, 1}, f \in {0, 1}}
        \cup {Store(InitialSliders, "Rx", Py(1)), Without(InitialSliders, "Rh")}

\* the slider configurations a caller hands to set_bounds: the one of
\* Main, one where the slider of Rh is linear from 0, one of two keys
\* without Pei, one that configures Pei as a power slider
Configurations ==
    {slider_configurations,
     [slider_configurations EXCEPT !["Rh"] = [type |-> "DoubleSliderWithTicks", min |-> 0, max |-> 1]],
     [key \in {"Rh", "Ph"} |->
         IF key = "Rh" THEN [type |-> "EPowerSliderWithTicks", min |-> -1, max |-> 1]
         ELSE [type |-> "DoubleSliderWithTicks", min |-> -1, max |-> 1]],
     [key \in {"Pei", "Rx"} |-> [type |-> "EPowerSliderWithTicks", min |-> 0, max |-> 1]]}

\* the lists of keys handed to _scale_params
KeyLists == {KeysOf([key \in S |-> 0]) : S \in SUBSET {"Rh", "Fh", "Ph", "Rx"}}

\* the keys whose disabling a caller requests: one of the vocabulary and one outside it
ApiDisabledKeys == {"Rh", "Rx"}

\* the caller holds one of its dictionaries; FitBuilder is as Main's startup leaves it
InitApi ==
    /\ InitCircuit
    /\ ret = NoCall
    /\ prim = NoCall
    /\ \E params \in ApiParams :
        heap = [id \in Cells |-> IF id = 1 THEN params ELSE EmptyDict]
    /\ v_sliders = 1
    /\ InitFitBuilder
    /\ fit = Idle
    /\ done = NoCall
    /\ supplied = [set |-> FALSE, params |-> EmptyDict]
    /\ calculator = NotFollowed

\* Calculator.set_bounds and FitBuilder.set_bounds; before holds the bounds
\* the object had when the call was made
Calculator_set_bounds ==
    /\ fit = Idle /\ done = NoCall
    /\ \E config \in Configurations :
        /\ done' = [op |-> "set_bounds", args |-> <<config>>,
                    before |-> <<fit_builder.lower_bounds, fit_builder.upper_bounds>>]
        /\ fit_builder' =
            [fit_builder EXCEPT
                !.lower_bounds = set_bounds(fit_builder.lower_bounds,
                                            fit_builder.upper_bounds, config)[1],
                !.upper_bounds = set_bounds(fit_builder.lower_bounds,
                                            fit_builder.upper_bounds, config)[2]]
    /\ UNCHANGED <<model_circuit, ret, prim, heap, v_sliders, fit, supplied, calculator>>

\* the caller scales its dictionary or the bounds with a list of keys of its choosing
CallScaleParams ==
    /\ fit = Idle /\ done = NoCall
    /\ \E keys \in KeyLists,
          params \in {heap[v_sliders], fit_builder.lower_bounds, fit_builder.upper_bounds} :
        done' = [op |-> "_scale_params", args |-> <<keys, params>>,
                 out |-> _scale_params(keys, params)]
    /\ UNCHANGED <<model_circuit, ret, prim, heap, v_sliders, fit_builder, fit, supplied, calculator>>

NextApi ==
    \/ Calculator_set_bounds \/ set_disabled_variables(ApiDisabledKeys)
    \/ CallScaleParams
    \/ fit_model \/ least_squares \/ fit_model_returns
    \/ ReturnFit

SpecApi == InitApi /\ [][NextApi]_vars

\* slider positions k / 1e6 as doubles: 0.5, -1.999998, 0.3 and 2.999999
SliderDoubles ==
    {Double(1, <<0, 0, 4096>>, -53, FALSE),
     Double(-1, <<68585, 1039986, 8191>>, -52, FALSE),
     Double(1, <<209715, 209715, 4915>>, -54, FALSE),
     Double(1, <<541434, 1046428, 6143>>, -51, FALSE)}

\* the dictionaries whose scaling is undone: magnitudes that are powers of
\* ten, or 0; phases that are small integers or slider positions
RoundTripParams ==
    {[key \in {"Rh", "Fh", "Ph", "Pei"} |->
         IF key = "Rh" THEN rh ELSE IF key = "Fh" THEN Py(1)
         ELSE IF key = "Ph" THEN ph ELSE pei] :
        rh \in {Py(0), Py(1), Py(10), Num(1, 0, 10, FALSE)},
        ph \in SliderDoubles \cup {Py(0), Py(1)},
        pei \in SliderDoubles \cup {Py(0), Py(-2)}}

\* _descale_params(keys, _scale_params(keys, params)), where scaled is the
\* outcome of the scaling
RoundTrip(keys, params, scaled) ==
    [op |-> "round_trip", args |-> <<keys, params>>, scaled |-> scaled,
     out |-> IF scaled.raised THEN EmptyDict ELSE _descale_params(keys, scaled.out)]

CallRoundTrip ==
    /\ fit = Idle /\ done = NoCall
    /\ \E keys \in {KeysOf([key \in S |-> 0]) : S \in SUBSET {"Rh", "Fh", "Ph", "Pei"}},
          params \in RoundTripParams :
        done' = RoundTrip(keys, params, _scale_params(keys, params))
    /\ UNCHANGED <<model_circuit, ret, prim, heap, v_sliders, fit_builder, fit, supplied, calculator>>

NextRoundTrip ==
    CallRoundTrip \/ ReturnFit

SpecRoundTrip == Init /\ [][NextRoundTrip]_vars

-----------------------------------------------------------------------------
(* Properties of the primitives *)

\* the number a value stands for, numpy scalar or not
Number(v) == IF v.k = "double" THEN <<v.sign, v.m, v.e>> ELSE <<v.re, v.im, v.den, v.ulp>>

\* doubles next to each other
Neighbours(x, y) ==
    /\ x.k = "double" /\ y.k = "double" /\ x.sign = y.sign
    /\ \/ x.e = y.e /\ (Inc(x.m) = y.m \/ Inc(y.m) = x.m)
       \/ x.e = y.e + 1 /\ x.m = <<0, 0, 4096>> /\ Inc(y.m) = <<0, 0, 8192>>
       \/ y.e = x.e + 1 /\ y.m = <<0, 0, 4096>> /\ Inc(x.m) = <<0, 0, 8192>>

RaisedDomainError(call) == call.out.k = "ValueError"
Raised(call) == IsExc(call.out)
ReturnedNumber(call) == call.out.k \in {"num", "double"}

\* C7: the CPE primitive raises a domain error exactly when Q == 0, or
\* f < 0, or f == 0 and Pf > 0, or f == 0 and Pf < 0; for every other
\* input, f == 0 with Pf == 0 included, it returns a value and raises nothing.
C7_CpeDomain ==
    prim.op = "_cpe" =>
        LET freq == prim.args[1]
            q == prim.args[2]
            pf == prim.args[3]
        IN IF IsZero(q) \/ IsNeg(freq) \/ (IsZero(freq) /\ IsPos(pf))
              \/ (IsZero(freq) /\ IsNeg(pf))
           THEN RaisedDomainError(prim)
           ELSE ReturnedNumber(prim)

\* the CPE was called at f == 0 with Pf == 0 and Q # 0 and returned a value
C7_Witness ==
    /\ prim.op = "_cpe"
    /\ IsZero(prim.args[1]) /\ IsZero(prim.args[3]) /\ ~IsZero(prim.args[2])
    /\ ReturnedNumber(prim)

\* C8: the parallel combination raises a domain error whenever either of
\* its two impedances is exactly zero, in the scalar form and in the array
\* form (any zero element of either array), and returns a value otherwise.
C8_ParallelDomain ==
    /\ prim.op = "_parallel" =>
          IF IsZero(prim.args[1]) \/ IsZero(prim.args[2])
          THEN RaisedDomainError(prim)
          ELSE ReturnedNumber(prim)
    /\ prim.op = "_parallel_arrays" =>
          IF \E a \in 1..2 : \E i \in 1..Len(prim.args[a].v) : IsZero(prim.args[a].v[i])
          THEN RaisedDomainError(prim)
          ELSE prim.out.k = "array"

\* the scalar form was called with two plain Python numbers, neither zero,
\* whose admittances cancel, and raised ZeroDivisionError
C8_Witness ==
    /\ prim.op = "_parallel"
    /\ ~IsZero(prim.args[1]) /\ ~IsZero(prim.args[2])
    /\ ~prim.args[1].np /\ ~prim.args[2].np
    /\ prim.out.k = "ZeroDivisionError"

Half(z) == IF z.k = "double" THEN DoubleHalf(z) ELSE Div(z, Py(2))

ReturnedFinite(call) == call.out.k = "double" \/ IsFinite(call.out)

NonzeroParallel ==
    prim.op = "_parallel" /\ ~IsZero(prim.args[1]) /\ ~IsZero(prim.args[2])

\* C13 as stated: for all nonzero Z1 and Z2 the parallel combination has a
\* value, the same as with the operands exchanged, and parallel(Z, Z) is
\* exactly Z/2.
C13_AsStated ==
    NonzeroParallel =>
        /\ ReturnedFinite(prim)
        /\ prim.out = _parallel(prim.args[2], prim.args[1])
        /\ prim.args[1] = prim.args[2] => prim.out = Half(prim.args[1])

\* C13: for all nonzero Z1 and Z2 the parallel combination returns or raises
\* the same with the operands exchanged, and parallel(Z, Z) returns a value
\* that is Z/2 or the double next to Z/2.
C13_Symmetry ==
    NonzeroParallel =>
        /\ prim.out = _parallel(prim.args[2], prim.args[1])
        /\ prim.args[1] = prim.args[2] =>
              /\ ReturnedFinite(prim)
              /\ \/ prim.out = Half(prim.args[1])
                 \/ Neighbours(prim.out, Half(prim.args[1]))

\* parallel(Z, Z) returned the double next to Z/2, and not Z/2
C13_Witness ==
    /\ NonzeroParallel /\ prim.args[1] = prim.args[2]
    /\ prim.out # Half(prim.args[1])
    /\ Neighbours(prim.out, Half(prim.args[1]))

-----------------------------------------------------------------------------
(* Properties of the circuit model *)

IsEvaluation(call) == call.op \in {"run_model", "run_rock"}

Value(call, key) == call.parameters[key]

\* Rh, Rm or Rl is 0, or Fh, Fm or Fl is <= 0
SecondaryOutOfDomain(call) ==
    \/ \E key \in {"Rh", "Rm", "Rl"} : IsZero(Value(call, key))
    \/ \E key \in {"Fh", "Fm", "Fl"} : ~IsPos(Value(call, key))

PrimitivesOfC9 ==
    /\ prim.op = "_inductor" =>
          IF IsZero(prim.args[2]) \/ IsNeg(prim.args[1])
          THEN RaisedDomainError(prim)
          ELSE ReturnedNumber(prim)
    /\ prim.op = "_q_from_f0" =>
          IF IsZero(prim.args[1]) \/ ~IsPos(prim.args[2])
          THEN RaisedDomainError(prim)
          ELSE ReturnedNumber(prim)

ShapeMismatch(call) == call.out.k = "ValueError" /\ call.out.why = "Shape mismatch"

FreqShape(call) == <<Len(call.freq_array.v)>>

\* C10, as the specification states it: estimate_rock raises the
\* shape-mismatch error whenever the impedance array's shape differs from
\* the frequency array's, and returns an array of the impedance's shape
\* when the shapes agree.
C10_AsStated ==
    ret.op = "estimate_rock" =>
        IF ret.impedance.shape # FreqShape(ret)
        THEN ShapeMismatch(ret)
        ELSE ret.out.k = "array" /\ ret.out.shape = ret.impedance.shape

\* C10, amended: a call of estimate_rock either raises what its
\* per-frequency computation raised (a primitive's domain error, a missing
\* cached Qh, a division by zero), whatever the shapes are, or that
\* computation completes, and then the call raises the shape-mismatch error
\* if the shapes differ and returns an array of the impedance's shape if
\* they agree.
C10_ShapeContract ==
    ret.op = "estimate_rock" =>
        \/ Raised(ret) /\ ~ShapeMismatch(ret)
        \/ IF ret.impedance.shape # FreqShape(ret)
           THEN ShapeMismatch(ret)
           ELSE ret.out.k = "array" /\ ret.out.shape = ret.impedance.shape

\* estimate_rock was called with an impedance of shape (n, 1) for n
\* frequencies and raised the shape-mismatch error
C10_Witness ==
    /\ ret.op = "estimate_rock"
    /\ Len(ret.impedance.shape) = 2
    /\ Len(ret.freq_array.v) > 0
    /\ ShapeMismatch(ret)

\* the cached secondary parameters Qh, Qm, Ql, R0, pRh, pQh, pRm, pQm, pRl, pQl
Cache(mc) == [q |-> mc.q, par_second |-> mc.par_second]

\* the caller's parameters with the sign of Rinf that the call is to use
Flipped(call) ==
    IF call.negative_rinf
    THEN [call.parameters EXCEPT !["Rinf"] = Neg(@)]
    ELSE call.parameters

\* the derivation from a parameter set, on an object with nothing cached
Derivation(par) ==
    _calculate_secondary_parameters(
        ModelCircuitParent("", FALSE, EmptyDict, EmptyDict, EmptyDict), par)

\* the same parameters with other resonant frequencies, which enter an
\* evaluation through the derivation only
OtherF(parameters) ==
    [parameters EXCEPT !["Fh"] = Py(0), !["Fm"] = Py(0), !["Fl"] = Py(0)]

Evaluate(call, mc, parameters) ==
    IF call.op = "run_model"
    THEN run_model(mc, parameters, call.freq_array, call.old_par_second).out
    ELSE run_rock(mc, parameters, call.freq_array, call.old_par_second).out

C5_Step ==
    ret = NoCall /\ IsEvaluation(ret') =>
        IF ret'.old_par_second
        THEN /\ Cache(model_circuit') = Cache(model_circuit)
             /\ ret'.out = Evaluate(ret', model_circuit, OtherF(ret'.parameters))
        ELSE ~IsExc(Derivation(Flipped(ret')).out)
             => Cache(model_circuit') = Cache(Derivation(Flipped(ret')).mc)

\* C5: for both topologies, a call of run_model or run_rock with
\* old_par_second = False whose derivation completes leaves the cached
\* secondary parameters equal to the derivation from that call's parameters
\* (after the Rinf sign flip, if set); a call with old_par_second = True
\* leaves the cache unchanged and computes its result from the cached
\* values: the result is the same whatever Fh, Fm and Fl are.
C5_Cache == [][C5_Step]_vars

\* run_model was called with old_par_second = True on a cache that is not
\* the derivation from the call's parameters, and returned impedances
C5_Witness ==
    /\ ret.op = "run_model" /\ ret.old_par_second
    /\ ret.out.k = "pair" /\ Len(ret.freq_array.v) > 0
    /\ Cache(model_circuit) # Cache(Derivation(Flipped(ret)).mc)

\* C6: every use of Rinf inside one run_model or run_rock call (the
\* derivation and, in the series topology, the added Rinf term) uses the
\* caller's Rinf negated exactly once when the negative-Rinf flag is set,
\* and the caller's Rinf as given when the flag is clear.
C6_RinfSign ==
    IsEvaluation(ret) => ret.uses \subseteq {Flipped(ret)["Rinf"]}

\* the series run_model was called with the flag set and Rinf # 0, read
\* Rinf and returned impedances
C6_Witness ==
    /\ ret.op = "run_model" /\ ret.name = "Series Circuit"
    /\ ret.negative_rinf /\ ~ret.old_par_second
    /\ ~IsZero(Value(ret, "Rinf"))
    /\ ret.uses = {Neg(Value(ret, "Rinf"))}
    /\ ret.out.k = "pair" /\ Len(ret.freq_array.v) > 0


\* a call of run_model is made in this step and returns
ModelReturns == ret = NoCall /\ ret'.op = "run_model" /\ ret'.out.k = "pair"

HasLength(a, n) == a.k = "array" /\ a.shape = <<n>> /\ Len(a.v) = n

C14_Step ==
    ModelReturns =>
        /\ HasLength(ret'.out.z, Len(ret'.freq_array.v))
        /\ HasLength(ret'.out.rock, Len(ret'.freq_array.v))
        /\ ret'.out.rock = run_rock(model_circuit, ret'.parameters, ret'.freq_array,
                                    ret'.old_par_second).out

\* C14: for both topologies, a call of run_model that returns, on a
\* frequency array of length n, returns a pair (total impedance, rock
\* impedance) of two arrays of length n, and the rock array is what run_rock
\* returns when called on the same object with the same parameters,
\* frequencies and old_par_second.
C14_RockOfModel == [][C14_Step]_vars

\* run_model of the parallel topology, with the Rinf flag set and Rinf # 0,
\* returned a pair for at least two frequencies
C14_Witness ==
    /\ ret.op = "run_model" /\ ret.out.k = "pair"
    /\ ret.name = "Parallel Circuit" /\ ret.negative_rinf /\ ~ret.old_par_second
    /\ ~IsZero(Value(ret, "Rinf"))
    /\ Len(ret.freq_array.v) >= 2 /\ Len(ret.out.rock.v) = Len(ret.freq_array.v)

\* everything the object caches: q, par_second and par_other_sec
Cached(mc) == [q |-> mc.q, par_second |-> mc.par_second, par_other_sec |-> mc.par_other_sec]

\* a call of run_model or run_rock with old_par_second = False is made in
\* this step and raises
EvaluationFails ==
    ret = NoCall /\ IsEvaluation(ret') /\ ~ret'.old_par_second /\ IsExc(ret'.out)

C26_Step == EvaluationFails => Cached(model_circuit') = Cached(model_circuit)

\* C26: if run_model or run_rock, called with old_par_second = False,
\* raises, the cached secondary parameters are not left partially updated:
\* after the failed call the cache equals the cache before the call.
C26_CacheKept == [][C26_Step]_vars

\* the value that the derivation from the call's parameters stores under key
Derived(call, key) ==
    (CHOOSE st \in Range(SecondaryStatements(Flipped(call))) :
        st.d = "par_second" /\ st.key = key).v

\* an evaluation that derives the cache raised a division by zero in the
\* middle of the derivation: R0 is the one of the call's parameters, pRm is
\* still the one of the parameters of an earlier call
C26_Witness ==
    /\ IsEvaluation(ret) /\ ~ret.old_par_second
    /\ ret.out.k = "ZeroDivisionError"
    /\ DOMAIN model_circuit.par_second = {"R0", "pRh", "pQh", "pRm", "pQm", "pRl", "pQl"}
    /\ model_circuit.par_second["R0"] = Derived(ret, "R0")
    /\ IsFinite(Derived(ret, "pRm"))
    /\ model_circuit.par_second["pRm"] # Derived(ret, "pRm")

\* C30: run_model, run_rock and estimate_rock leave the caller's parameter
\* mapping as it was, in both topologies and also when the negative-Rinf
\* flag is set: every key, Rinf included, keeps its value.
C30_CallerMapping ==
    ret.op \in {"run_model", "run_rock", "estimate_rock"} => ret.after = ret.parameters

\* a call with the flag set and Rinf # 0 that used the negated Rinf, in the
\* parallel topology, and left the caller's Rinf as given
C30_Witness ==
    /\ IsEvaluation(ret) /\ ret.name = "Parallel Circuit"
    /\ ret.negative_rinf /\ ~ret.old_par_second
    /\ ~IsZero(Value(ret, "Rinf"))
    /\ ret.uses = {Neg(Value(ret, "Rinf"))}
    /\ ret.after["Rinf"] = Value(ret, "Rinf")

-----------------------------------------------------------------------------
(* Properties of the time-domain response *)

TimeDomainRan == ret.op = "run_time_domain"

\* C15: in run_time_domain the grid handed to the rock model has the
\* positive floor in place of the zero frequency and no frequency <= 0;
\* where the rock model returns, bin 0 of the impedance handed to the
\* inverse FFT is the real part of what the model returned, with imaginary
\* part exactly zero, and every other bin is what the model returned.
C15_DcBin ==
    TimeDomainRan =>
        /\ ret.freq_even.v[1] = Floor /\ IsPos(Floor)
        /\ \A i \in 1..Len(ret.freq_even.v) : IsPos(ret.freq_even.v[i])
        /\ ret.z_model.k = "array" =>
              /\ ret.z_complex.v[1].im = 0
              /\ ret.z_complex.v[1] = Real(ret.z_model.v[1])
              /\ \A i \in 2..Len(ret.z_model.v) : ret.z_complex.v[i] = ret.z_model.v[i]
              /\ Len(ret.z_complex.v) = Len(ret.z_model.v)

\* the rock model returned a finite bin 0 with an imaginary part, and other
\* bins with one, and run_time_domain returned
C15_Witness ==
    /\ TimeDomainRan /\ ret.out.k = "tuple"
    /\ IsFinite(ret.z_model.v[1]) /\ ret.z_model.v[1].im # 0
    /\ ret.z_complex.v[2].im # 0

TimeDomainReturned == TimeDomainRan /\ ret.out.k = "tuple"

\* the index np.searchsorted gives the i-th checkpoint in the time axis
CheckpointIndex(i) == searchsorted(ret.t, Seconds[i], "left")

\* the value stored for the i-th checkpoint
Stored(i) == calculator._integral_variables[IntegralKeys[i]]

NineLabels ==
    /\ DOMAIN calculator._integral_variables = Range(IntegralKeys)
    /\ Cardinality(DOMAIN calculator._integral_variables) = 9

TakenInRange ==
    \A i \in 1..Len(IntegralKeys) :
        /\ CheckpointIndex(i) < Len(ret.v_down.v)
        /\ Stored(i) = ret.v_down.v[CheckpointIndex(i) + 1]

\* v lies between the minimum and the maximum of the array a
Between(v, a) ==
    /\ \E i \in 1..Len(a) : \A j \in 1..Len(a) : Leq(a[i], a[j]) /\ Leq(a[i], v)
    /\ \E i \in 1..Len(a) : \A j \in 1..Len(a) : Leq(a[j], a[i]) /\ Leq(v, a[i])

\* C16: after every run_time_domain that returns, the mapping has exactly
\* the 9 labels, each value is the element of the falling response at the
\* in-range search-sorted index of its checkpoint, and it lies between the
\* array's minimum and maximum.
C16_Metrics ==
    TimeDomainReturned =>
        /\ NineLabels
        /\ TakenInRange
        /\ \A i \in 1..Len(IntegralKeys) : Between(Stored(i), ret.v_down.v)

\* run_time_domain returned with a falling response that is not constant,
\* and checkpoints that fall on different indices
C16_Witness ==
    /\ TimeDomainReturned
    /\ \E i, j \in 1..Len(IntegralKeys) :
          CheckpointIndex(i) # CheckpointIndex(j) /\ Stored(i) # Stored(j)
    /\ \A i \in 1..Len(IntegralKeys) : IsFinite(Stored(i))

\* the rock model returned, and the pulse was derived from its spectrum
PulseDerived == TimeDomainRan /\ ret.z_model.k = "array"

\* the filtered impulse sequence of the call
Impulse == FilteredInverse(ret.z_complex, ret.samples)

\* the samples whose time is the reference time 2
AtReference == {k \in 1..Len(ret.t) : SameNumber(ret.t[k], Np(2))}

\* C23: in the pulse derivation the rising response has first sample 0 and
\* sample k equal to the sum of the first k filtered impulse samples, and
\* the falling response at every sample k is the rising response at the
\* sample whose time is the reference time 2 minus the rising response at k;
\* so the falling response at t = 2 is exactly 0.
C23_Pulse ==
    PulseDerived =>
        /\ IsZero(ret.v_up[1])
        /\ \A k \in 1..(Len(ret.v_up) - 1) :
              SameNumber(ret.v_up[k + 1], cumsum(Impulse, k))
        /\ AtReference # {}
        /\ ret.v_down.k = "array"
        /\ \A ref \in AtReference :
              /\ \A k \in 1..Len(ret.v_up) :
                    SameNumber(ret.v_down.v[k], Sub(ret.v_up[ref], ret.v_up[k]))
              /\ IsZero(ret.v_down.v[ref])

\* the pulse was derived from a finite spectrum; the falling response at
\* t = 2 is the impulse sample of that time, which is not 0, and the falling
\* response is 0 one sample later
C23_Witness ==
    /\ PulseDerived /\ ret.out.k = "tuple"
    /\ \A k \in 1..Len(ret.v_up) : IsFinite(ret.v_up[k])
    /\ \E ref \in AtReference :
          /\ ~IsZero(ret.v_down.v[ref])
          /\ SameNumber(ret.v_down.v[ref], Impulse[ref])
          /\ IsZero(ret.v_down.v[ref + 1])
          /\ \A k \in 1..Len(ret.v_up) :
                SameNumber(ret.v_down.v[k], Sub(ret.v_up[ref + 1], ret.v_up[k]))

\* the four arrays that run_time_domain returned
Returned_arrays == <<ret.out.freq, ret.out.time, ret.out.volt_down, ret.out.volt_up>>

\* C24: run_time_domain, with an even number of samples N as the code's
\* 2 ** 14, returns four arrays (frequency grid, time, falling voltage,
\* rising voltage) of the same length N/2 + 1, and every returned time
\* sample lies in the first half of the transform duration: 0 <= t <= T/2.
C24_Lengths ==
    TimeDomainReturned /\ N % 2 = 0 =>
        /\ \A i \in 1..4 :
              /\ Returned_arrays[i].k = "array"
              /\ Len(Returned_arrays[i].v) = N \div 2 + 1
              /\ Returned_arrays[i].shape = <<N \div 2 + 1>>
        /\ \A k \in 1..Len(ret.out.time.v) :
              /\ Leq(Np(0), ret.out.time.v[k])
              /\ Leq(ret.out.time.v[k], Num(T, 0, 2, FALSE))

\* run_time_domain returned finite arrays that are shorter than the time
\* axis and end at the sample of time T/2
C24_Witness ==
    /\ TimeDomainReturned
    /\ Len(ret.out.time.v) = N \div 2 + 1
    /\ Len(ret.out.time.v) < Len(ret.t)
    /\ SameNumber(ret.out.time.v[Len(ret.out.time.v)], Np(T \div 2))
    /\ \A k \in 1..Len(ret.out.volt_down.v) : IsFinite(ret.out.volt_down.v[k])
    /\ \E k \in 1..Len(ret.out.volt_up.v) : ~IsZero(ret.out.volt_up.v[k])

-----------------------------------------------------------------------------
(* Properties of the manual evaluation *)

ManualCalled == ret.op = "run_model_manual"

ManualReturned == ManualCalled /\ ret.out.k = "CalculationResult"

\* the frequencies of the current experimental spectrum
Spectrum_freq == calculator._experiment_data.freq.v

IsMaximum(x, a) == (\E i \in 1..Len(a) : a[i] = x) /\ \A i \in 1..Len(a) : Leq(a[i], x)

IsMinimum(x, a) == (\E i \in 1..Len(a) : a[i] = x) /\ \A i \in 1..Len(a) : Leq(x, a[i])

\* C17: after a manual evaluation, Fhigh is the maximum and Flow the minimum
\* frequency of the current experimental spectrum, whatever the order of its
\* frequencies.
C17_MinMax ==
    ManualReturned =>
        /\ IsMaximum(calculator._fit_variables["Fhigh"], Spectrum_freq)
        /\ IsMinimum(calculator._fit_variables["Flow"], Spectrum_freq)

\* a manual evaluation of a spectrum in ascending order has returned: Fhigh
\* is its first frequency, below the last, which is Flow
C17_Witness ==
    /\ ManualReturned
    /\ Len(Spectrum_freq) >= 2
    /\ calculator._fit_variables["Fhigh"] = Spectrum_freq[1]
    /\ calculator._fit_variables["Flow"] = Spectrum_freq[Len(Spectrum_freq)]
    /\ Less(calculator._fit_variables["Fhigh"], calculator._fit_variables["Flow"])

Populated(result) == \A field \in ResultFields : result.fields[field] # None

\* C18: a call of run_model_manual either raises without having emitted a
\* result, or emits exactly one result and returns that same result, all of
\* whose twelve fields are populated.
C18_EmitOrRaise ==
    ManualCalled =>
        \/ IsExc(ret.out) /\ ret.emitted = <<>>
        \/ /\ ManualReturned
           /\ ret.emitted = <<ret.out>>
           /\ Populated(ret.out)

\* a call has raised after it emitted a result, for a spectrum that is not empty
C18_Witness ==
    /\ ManualCalled
    /\ IsExc(ret.out)
    /\ Len(ret.emitted) = 1
    /\ Populated(ret.emitted[1])
    /\ Len(ret.before._experiment_data.freq.v) > 0

\* the evaluation reads the cached secondary parameters without deriving them
ReadsCache(e) == e.call.op = "estimate_rock" \/ e.call.old_par_second

\* the evaluation derived the secondary parameters and went on
Recomputed(e) == e.call.op # "estimate_rock" /\ ~e.call.old_par_second /\ ~IsExc(e.out)

\* the secondary parameters that the parameters of the evaluation give on
\* the object it is made on
SecondariesOf(e) == Cache(Derivation(CopyWithRinfSign(e.mc, e.call.parameters)).mc)

\* C21: within one run_model_manual call, every evaluation that reads the
\* cached secondary parameters (the two special-frequency evaluations with
\* old_par_second = True, the one with Re and Qe overridden included, and
\* estimate_rock) comes after an evaluation of the same call that derived
\* them, on the same topology, from parameters that give the same secondary
\* parameters; the cache it reads holds exactly those.
C21_SameSecondaries ==
    ManualCalled =>
        \A i \in 1..Len(ret.evaluations) :
            ReadsCache(ret.evaluations[i]) =>
                /\ \E j \in 1..(i - 1) :
                      /\ Recomputed(ret.evaluations[j])
                      /\ ret.evaluations[j].mc.name = ret.evaluations[i].mc.name
                      /\ SecondariesOf(ret.evaluations[j]) = SecondariesOf(ret.evaluations[i])
                /\ Cache(ret.evaluations[i].mc) = SecondariesOf(ret.evaluations[i])

\* a manual evaluation made all its calls of the circuit model, on an object
\* whose cache held the secondary parameters of another parameter set
C21_Witness ==
    /\ ManualCalled
    /\ Len(ret.evaluations) = 5
    /\ \A i \in 1..5 : ~IsExc(ret.evaluations[i].out)
    /\ DOMAIN ret.evaluations[1].mc.par_second # {}
    /\ Cache(ret.evaluations[1].mc) # SecondariesOf(ret.evaluations[1])
    /\ ReadsCache(ret.evaluations[3])
    /\ ret.evaluations[3].call.parameters # ret.evaluations[1].call.parameters

\* C27: after any sequence of switch_circuit_model calls, the 'model' entry
\* of what get_model_parameters returns is the name of the active topology.
C27_ModelEntry ==
    get_model_parameters(model_circuit, calculator)["model"] = model_circuit.name

\* the series topology has been selected and evaluated, and
\* get_model_parameters is asked for the entry
C27_Witness ==
    /\ ManualReturned
    /\ model_circuit.name = "Series Circuit"
    /\ "model" \in DOMAIN get_model_parameters(model_circuit, calculator)
    /\ "R01" \in DOMAIN get_model_parameters(model_circuit, calculator)
    /\ get_model_parameters(model_circuit, calculator)["model"] = "Parallel Circuit"

-----------------------------------------------------------------------------
(* Properties of the objects Calculator wires together *)

SameInstance ==
    /\ calculator.fit_builder._model_circuit = calculator._model_circuit
    /\ calculator.time_domain_builder.model_circuit = calculator._model_circuit

SameData ==
    /\ fit_builder._experiment_data.freq = calculator._experiment_data.freq
    /\ fit_builder._experiment_data.points = Len(calculator._experiment_data.Z_real.v)

Switching == ret.op = "switch_circuit_model"

CarriedOver ==
    /\ calculator._model_circuit # ret.instance
    /\ model_circuit.name = (IF ret.state THEN "Series Circuit" ELSE "Parallel Circuit")
    /\ model_circuit.negative_rinf = ret.replaced.negative_rinf
    /\ Cached(model_circuit) = Cached(ret.replaced)

\* C28: after any sequence of Calculator operations the fit engine and the
\* time-domain builder hold the same circuit-model instance as the
\* Calculator, the fit engine holds the Calculator's experimental data, and
\* a topology switch carries the negative-Rinf flag and the cached secondary
\* parameters over to the new object.
C28_Wiring == SameInstance /\ SameData /\ (Switching => CarriedOver)

\* a switch to the series topology after a new spectrum was loaded, the
\* flag was set and an evaluation filled the cache
C28_Witness ==
    /\ Switching /\ ret.state
    /\ ret.replaced.name = "Parallel Circuit"
    /\ model_circuit.negative_rinf
    /\ "R0" \in DOMAIN model_circuit.par_second
    /\ Len(calculator._experiment_data.freq.v) = 3
    /\ fit_builder.gaussian_prior
    /\ calculator.fit_builder._model_circuit # 0

-----------------------------------------------------------------------------
(* Properties of the fit engine *)

FitReturned == done.op = "fit_model" /\ ~done.raised
FitRaised == done.op = "fit_model" /\ done.raised

\* the keys that fit_model held fixed in the call that has just returned
LockedKeys == done.disabled_variables \cap DOMAIN supplied.params

\* C1: whenever the residual function raises a ValueError at a trial vector,
\* the objective is the constant vector of 1e6 and the fit goes on; no
\* ValueError of a primitive ends fit_model.
C1_Penalty ==
    /\ (fit.pc = "least_squares" /\ IsExc(fit.caught)) =>
           /\ fit.caught.k = "ValueError"
           /\ fit.objective = Penalty
           /\ fit.objective.value = 1000000
    /\ FitRaised => done.exc.k # "ValueError"

C1_Witness ==
    /\ fit.pc = "least_squares"
    /\ fit.caught.k = "ValueError"
    /\ fit.objective = Penalty

\* C2 as stated: every disabled key of the initial parameters, Pei included,
\* is returned and emitted with the caller's initial value.
C2_AsStated ==
    FitReturned =>
        \A key \in LockedKeys :
            /\ done.out[key] = supplied.params[key]
            /\ done.emitted[key] = supplied.params[key]

\* x is y plus a multiple of 4, within -1 <= x < 3
Wrapped(x, y) ==
    /\ (x.re * y.den - y.re * x.den) % (4 * x.den * y.den) = 0
    /\ -x.den <= x.re /\ x.re < 3 * x.den

\* C2: every disabled key of the initial parameters other than Pei is
\* returned and emitted with the caller's initial value; a disabled Pei is
\* returned as the initial value wrapped into [-1, 3).
C2_Locked ==
    FitReturned =>
        \A key \in LockedKeys :
            IF key = "Pei"
            THEN /\ Wrapped(done.out[key], supplied.params[key])
                 /\ done.emitted[key] = done.out[key]
            ELSE /\ done.out[key] = supplied.params[key]
                 /\ done.emitted[key] = supplied.params[key]

\* a fit that held fixed a Pei outside [-1, 3) and another key
C2_Witness ==
    /\ FitReturned
    /\ LockedKeys = {"Pei", "Linf"}
    /\ supplied.params["Pei"] = Py(3)
    /\ done.out["Pei"] = Py(-1)
    /\ done.out["Linf"] = supplied.params["Linf"]

\* -1 <= v < 3, where v may be the double next below a rational
InRange(v) ==
    /\ v.den > 0
    /\ IF v.ulp = -1 THEN -v.den < v.re /\ v.re <= 3 * v.den
       ELSE -v.den <= v.re /\ v.re < 3 * v.den

\* C3: a returned Pei v satisfies -1 <= v < 3 and is the value before the
\* normalization plus a multiple of 4; the emitted value is the returned one.
C3_PeiRange ==
    (FitReturned /\ "Pei" \in DOMAIN done.out) =>
        /\ InRange(done.out["Pei"])
        /\ (done.out["Pei"].re * done.before["Pei"].den
                - done.before["Pei"].re * done.out["Pei"].den)
               % (4 * done.out["Pei"].den * done.before["Pei"].den) = 0
        /\ done.emitted["Pei"] = done.out["Pei"]

\* the fit ends at the double next below -1.0 and returns 3.0
C3_Witness ==
    /\ FitReturned
    /\ done.before["Pei"] = Below(Np(-1))
    /\ done.out["Pei"] = Np(3)

\* C4: recover_previous_fit emits the initial_params of the latest call of
\* fit_model with the values they had when the call was made.
C4_Undo ==
    (done.op = "recover_previous_fit" /\ supplied.set) =>
        done.emitted = supplied.params

\* the undo after a fit that raised and a slider move
C4_Witness ==
    /\ done.op = "recover_previous_fit"
    /\ supplied.set
    /\ done.emitted # supplied.params
    /\ done.emitted = heap[fit_builder._previous_fit_params]


\* the objective was evaluated at a trial point without error
EvaluatedWithoutError == fit.pc = "least_squares" /\ fit.objective.k = "residual"

\* the number of points of the experimental spectrum
SpectrumPoints == Len(fit_builder._experiment_data.freq.v)

\* C22: for a trial point that evaluates without error, the objective vector
\* is the model residual, of length 2n for a spectrum of n points, followed,
\* if and only if the Gaussian prior is enabled, by one prior term for each
\* free key and the two invalid-region penalty terms; with the prior
\* disabled neither is appended.
C22_Objective ==
    EvaluatedWithoutError =>
        /\ fit.objective.model = 2 * SpectrumPoints
        /\ IF fit_builder.gaussian_prior
           THEN fit.objective.prior = Len(fit.free_keys) /\ fit.objective.invalid = 2
           ELSE fit.objective.prior = 0 /\ fit.objective.invalid = 0

\* with the prior enabled and a key locked, a trial point other than x0 was
\* evaluated without error on a spectrum of two points
C22_Witness ==
    /\ EvaluatedWithoutError
    /\ fit_builder.gaussian_prior
    /\ SpectrumPoints = 2
    /\ DOMAIN fit.locked_params # {}
    /\ fit.x_free # fit.x0
    /\ fit.objective.prior = Len(fit.free_keys) /\ fit.objective.invalid = 2

\* len(vector) of a vector that _residual_wrapper returned
Length(vector) ==
    IF vector.k = "penalty" THEN vector.len
    ELSE vector.model + vector.prior + vector.invalid

\* C25: within one fit_model call every invocation of the objective wrapper
\* returns a vector of the same length, whether the trial point evaluated
\* normally or raised a domain error and was replaced by the penalty vector.
C25_SameLength ==
    fit.pc = "least_squares" =>
        \A i, j \in 1..Len(fit.objectives) :
            Length(fit.objectives[i]) = Length(fit.objectives[j])

\* in one fit_model call the wrapper returned the residual of a trial point
\* that evaluated normally and, for another, the penalty vector of 10000
\* elements
C25_Witness ==
    /\ fit.pc = "least_squares"
    /\ Len(fit.objectives) = 2
    /\ fit.objectives[1].k = "residual"
    /\ fit.objectives[2] = Penalty
    /\ fit.caught.k = "ValueError"
    /\ Length(fit.objectives[1]) = 2 * SpectrumPoints
    /\ Length(fit.objectives[2]) = PenaltyLength

-----------------------------------------------------------------------------
(* Properties of FitBuilder called directly *)

\* value <= 0
NonPositive(v) == v.k = "num" /\ IF v.den = 0 THEN v.re < 0 ELSE v.re <= 0

\* some key of the list does not start with 'P' and has a value <= 0
SomeMagnitudeNonPositive(keys, params) ==
    \E key \in Range(keys) \cap DOMAIN params :
        ~StartsWithP(key) /\ NonPositive(params[key])

\* the free keys of the call of fit_model whose initial_params are in supplied
FreeKeys == DOMAIN supplied.params \ fit_builder.disabled_variables

\* a free magnitude-type parameter, or its lower or upper bound, is <= 0
FreeMagnitudeNonPositive ==
    \E key \in FreeKeys :
        /\ ~StartsWithP(key)
        /\ \/ NonPositive(supplied.params[key])
           \/ key \in DOMAIN fit_builder.lower_bounds
                /\ NonPositive(fit_builder.lower_bounds[key])
           \/ key \in DOMAIN fit_builder.upper_bounds
                /\ NonPositive(fit_builder.upper_bounds[key])

\* C11: scaling a parameter set that has the keys to be scaled raises the
\* ValueError if and only if some key to be scaled does not start with 'P'
\* and has a value <= 0; so fit_model raises, emits nothing and never
\* starts the optimizer when a free magnitude-type parameter, or its lower
\* or upper bound, is <= 0.
C11_ScaleDomain ==
    /\ (done.op = "_scale_params" /\ Range(done.args[1]) \subseteq DOMAIN done.args[2]) =>
           IF SomeMagnitudeNonPositive(done.args[1], done.args[2])
           THEN done.out.raised /\ done.out.out.k = "ValueError"
           ELSE ~done.out.raised
    /\ (done.op = "fit_model" /\ FreeMagnitudeNonPositive) =>
           done.raised /\ done.emitted = EmptyDict /\ done.out = EmptyDict
    /\ fit.pc = "least_squares" => ~FreeMagnitudeNonPositive

\* fit_model was called with a positive free Rh whose lower bound is 0 and
\* raised the ValueError
C11_Witness ==
    /\ done.op = "fit_model" /\ done.raised
    /\ done.exc.k = "ValueError"
    /\ "Rh" \in FreeKeys
    /\ supplied.params["Rh"] = Py(1)
    /\ fit_builder.lower_bounds["Rh"] = Py(0)


ScalingSucceeded == done.op = "round_trip" /\ ~done.scaled.raised

\* C12 as stated: where scaling succeeds, descaling the scaled vector with
\* the same key list reproduces the value of every key and yields a mapping
\* whose key set is the key list.
C12_AsStated ==
    ScalingSucceeded =>
        /\ DOMAIN done.out = Range(done.args[1])
        /\ \A key \in Range(done.args[1]) : Number(done.out[key]) = Number(done.args[2][key])

\* C12: where scaling succeeds, descaling the scaled vector with the same
\* key list yields a mapping whose key set is the key list; the value of
\* a phase-type key comes back as the same double or as a double next to it
\* (x * 10.0 / 10.0 rounds twice), a magnitude-type value that is a power of
\* ten comes back as it was.
C12_RoundTrip ==
    ScalingSucceeded =>
        /\ DOMAIN done.out = Range(done.args[1])
        /\ \A key \in Range(done.args[1]) :
            \/ Number(done.out[key]) = Number(done.args[2][key])
            \/ StartsWithP(key) /\ Neighbours(done.out[key], done.args[2][key])

\* the slider position -1.999998 of Pei came back as the double next to it,
\* beside a magnitude and a phase that came back as they were
C12_Witness ==
    /\ ScalingSucceeded
    /\ Range(done.args[1]) = {"Rh", "Ph", "Pei"}
    /\ done.args[2]["Pei"] = Double(-1, <<68585, 1039986, 8191>>, -52, FALSE)
    /\ Number(done.out["Pei"]) # Number(done.args[2]["Pei"])
    /\ Neighbours(done.out["Pei"], done.args[2]["Pei"])
    /\ Number(done.out["Rh"]) = Number(Py(10))
    /\ Number(done.out["Ph"]) = Number(done.args[2]["Ph"])

\* the initial parameters of the fit request do not match the disabled set
\* or the bounds: a disabled key they do not hold, or a key the bounds do not
DisabledUnmatched(initial_params) ==
    fit_builder.disabled_variables \ DOMAIN initial_params # {}

UnknownToBounds(initial_params) ==
    DOMAIN initial_params \ DOMAIN fit_builder.lower_bounds # {}

\* C19: a fit request whose disabled set holds a key that is not a key of the
\* initial parameters, or whose parameter keys are unknown to the bounds, is
\* rejected with an error raised to the caller.
C19_Rejected ==
    (done.op = "fit_model"
        /\ (DisabledUnmatched(supplied.params) \/ UnknownToBounds(supplied.params)))
    => done.raised

\* a fit has returned a result although a disabled key is no key of its
\* initial parameters
C19_Witness ==
    /\ done.op = "fit_model" /\ ~done.raised
    /\ DisabledUnmatched(supplied.params)
    /\ ~UnknownToBounds(supplied.params)

SetBoundsCalled == done.op = "set_bounds"

\* the bounds the object holds for the key
BoundsOf(key) == <<fit_builder.lower_bounds[key], fit_builder.upper_bounds[key]>>

\* 10 ** n for an integer n
TenTo(n) == IF n >= 0 THEN Py(10 ^ n) ELSE Num(1, 0, 10 ^ (-n), FALSE)

\* C20: after a set_bounds call, a configured key flagged as power-like has
\* the bounds (10^min, 10^max), any other configured key has its configured
\* (min, max), and Pei has (-infinity, +infinity), whatever the configuration
\* says about Pei and whether or not Pei appears in it.
C20_Bounds ==
    SetBoundsCalled =>
        /\ \A key \in DOMAIN done.args[1] \ {"Pei"} :
              BoundsOf(key) =
                  IF done.args[1][key].type = "EPowerSliderWithTicks"
                  THEN <<TenTo(done.args[1][key].min), TenTo(done.args[1][key].max)>>
                  ELSE <<Py(done.args[1][key].min), Py(done.args[1][key].max)>>
        /\ BoundsOf("Pei") = <<Inf(-1), Inf(1)>>

\* set_bounds was called with a configuration that flags Pei and another
\* key as power-like
C20_Witness ==
    /\ SetBoundsCalled
    /\ "Pei" \in DOMAIN done.args[1]
    /\ done.args[1]["Pei"].type = "EPowerSliderWithTicks"
    /\ \E key \in DOMAIN done.args[1] \ {"Pei"} :
          /\ done.args[1][key].type = "EPowerSliderWithTicks"
          /\ BoundsOf(key) = <<TenTo(done.args[1][key].min), TenTo(done.args[1][key].max)>>
    /\ BoundsOf("Pei") = <<Inf(-1), Inf(1)>>


\* least_squares is at work for a call of fit_model
Fitting == fit.pc = "least_squares"

FreeOfCall == {fit.free_keys[i] : i \in 1..Len(fit.free_keys)}

LockedOfCall == DOMAIN fit.locked_params

\* C29: for every fit that returns, the keys of the returned parameter set
\* are the keys of the initial one: the free keys and the locked keys of the
\* call are disjoint and together are the initial keys, and the returned
\* set has no other key.
C29_Keys ==
    /\ Fitting =>
        /\ FreeOfCall \cap LockedOfCall = {}
        /\ FreeOfCall \cup LockedOfCall = DOMAIN supplied.params
        /\ Cardinality(FreeOfCall) = Len(fit.free_keys)
    /\ FitReturned => DOMAIN done.out = DOMAIN supplied.params

\* a fit returned that had a locked key, free keys, a key outside the
\* vocabulary among the initial ones, and a disabled key that is no initial key
C29_Witness ==
    /\ FitReturned
    /\ LockedKeys # {}
    /\ DOMAIN done.out \ LockedKeys # {}
    /\ done.disabled_variables \ DOMAIN supplied.params # {}

====
